---------------------------- MODULE Spec2Model ----------------------------
(***************************************************************************)
(* Cellular-automata sandbox: the simulation controller (the useSimulation *)
(* hook), the simulation worker and the message transport between them.    *)
(*                                                                         *)
(* Control domain (hooks/useSimulation.ts): React state config and         *)
(* gridState, the refs isProcessingRef, lastStepTimeRef and                *)
(* animationFrameRef, and the animation-frame callbacks the browser holds. *)
(* Every stepSimulation callback is a closure over the config and the      *)
(* gridState of the render that created it.  A handler that changes React  *)
(* state is modelled together with the re-render and the effects that      *)
(* follow it.                                                              *)
(*                                                                         *)
(* Compute domain (workers/simulationWorker.ts): one message handler that  *)
(* takes the messages in receipt order and posts one reply for each.       *)
(*                                                                         *)
(* Rule editor (components/Controls.tsx, utils/ruleParser.ts): the rule    *)
(* text field, parsed and formatted character by character.                *)
(***************************************************************************)
EXTENDS Integers, Sequences, FiniteSets, TLC

(***************************************************************************)
(* Bounds of the model.                                                    *)
(***************************************************************************)
\* Side of the square grid (DEFAULT_GRID_SIZE is 200 in the program).
DEFAULT_GRID_SIZE == 2
\* Animation-frame callbacks the browser holds at one time.
MaxPending == 2
\* Messages posted to the worker and not yet handled.
MaxInbox == 1
\* Replies posted by the worker and not yet delivered.
MaxOutbox == 1
\* Calls of reset().
MaxResets == 1
\* Milliseconds between two animation frames.
FrameMs == 16

(***************************************************************************)
(* Values.                                                                 *)
(***************************************************************************)
\* DEFAULT_CONFIG.rule, B3/S23.
DefaultRule == [birth |-> <<3>>, survival |-> <<2, 3>>]
\* B36/S23, as the rule editor's parseRuleString returns it.
HighLife == [birth |-> <<3, 6>>, survival |-> <<2, 3>>]
Rules == {DefaultRule, HighLife}

\* DEFAULT_CONFIG.speed, in steps per second.
DefaultSpeed == 100
\* Values of the speed slider (1..400) the model uses.
Speeds == {DefaultSpeed, 50}

\* Elapsed times are kept up to this many milliseconds; it exceeds every
\* step interval 1000/speed of Speeds, so a saturated time passes every test.
TimeCap == 2 * FrameMs

Min(a, b) == IF a <= b THEN a ELSE b

\* The cells the pointer toggles (Canvas passes in-range coordinates only).
ToggleCells == {[x |-> 0, y |-> 0]}

\* The glider of the mount effect's INIT_GRID message.
InitialPattern ==
    << [x |-> 10, y |-> 10], [x |-> 11, y |-> 10], [x |-> 12, y |-> 10],
       [x |-> 12, y |-> 11], [x |-> 11, y |-> 12] >>

(***************************************************************************)
(* The worker's pure functions.  A Uint8Array of n cells is a function     *)
(* from 0..n-1 to {0,1}.                                                   *)
(***************************************************************************)
\* JavaScript's %: the remainder takes the sign of the dividend.
JsMod(a, b) == IF a >= 0 THEN a % b ELSE -((-a) % b)

\* Array.prototype.includes on an array of numbers.
Includes(arr, v) == \E i \in DOMAIN arr : arr[i] = v

\* A typed-array read: undefined (never === 1) outside the array.
CellAt(cells, index) == IF index \in DOMAIN cells THEN cells[index] ELSE 0

Offsets == {d \in (-1 .. 1) \X (-1 .. 1) : d # <<0, 0>>}

\* countNeighbors without the wrap: the neighbour's coordinates are x + dx
\* and y + dy as they are.
countNeighborsNoWrap(cells, x, y, width, height) ==
    Cardinality({d \in Offsets :
        LET nx == x + d[1]
            ny == y + d[2]
            index == ny * width + nx
        IN  CellAt(cells, index) = 1})

\* countNeighbors without the skip of dx = 0, dy = 0.
countNeighborsWithSelf(cells, x, y, width, height) ==
    Cardinality({d \in (-1 .. 1) \X (-1 .. 1) :
        LET nx == JsMod(x + d[1] + width, width)
            ny == JsMod(y + d[2] + height, height)
            index == ny * width + nx
        IN  CellAt(cells, index) = 1})

countNeighbors(cells, x, y, width, height) ==
    Cardinality({d \in Offsets :
        LET nx == JsMod(x + d[1] + width, width)
            ny == JsMod(y + d[2] + height, height)
            index == ny * width + nx
        IN  CellAt(cells, index) = 1})

\* A typed-array write: ignored outside the array.
WriteAt(cells, index, value) ==
    IF index \in DOMAIN cells THEN [cells EXCEPT ![index] = value] ELSE cells

\* The body of simulationStep's inner loop, written as if the new cell were
\* stored into the buffer the neighbours are read from.
scanCellInPlace(st, index, width, height, rule) ==
    LET x == index % width
        y == index \div width
        currentCell == CellAt(st.currentState, index)
        neighbors == countNeighbors(st.currentState, x, y, width, height)
        newCell == IF currentCell = 1
                   THEN (IF Includes(rule.survival, neighbors) THEN 1 ELSE 0)
                   ELSE (IF Includes(rule.birth, neighbors) THEN 1 ELSE 0)
        written == WriteAt(st.currentState, index, newCell)
    IN  [currentState |-> written, newState |-> written]

\* The body of simulationStep's inner loop with the survival and birth lists
\* taken for each other.
scanCellSwapped(st, index, width, height, rule) ==
    LET x == index % width
        y == index \div width
        currentCell == CellAt(st.currentState, index)
        neighbors == countNeighbors(st.currentState, x, y, width, height)
        newCell == IF currentCell = 1
                   THEN (IF Includes(rule.birth, neighbors) THEN 1 ELSE 0)
                   ELSE (IF Includes(rule.survival, neighbors) THEN 1 ELSE 0)
    IN  [st EXCEPT !.newState = WriteAt(st.newState, index, newCell)]

\* The body of simulationStep's inner loop for the cell at index = y*width+x;
\* st holds the two buffers, [currentState, newState].
scanCell(st, index, width, height, rule) ==
    LET x == index % width
        y == index \div width
        currentCell == CellAt(st.currentState, index)
        neighbors == countNeighbors(st.currentState, x, y, width, height)
        newCell == IF currentCell = 1
                   THEN (IF Includes(rule.survival, neighbors) THEN 1 ELSE 0)
                   ELSE (IF Includes(rule.birth, neighbors) THEN 1 ELSE 0)
    IN  [st EXCEPT !.newState = WriteAt(st.newState, index, newCell)]

\* The two loops, visiting the cells in the given order of indexes.  Each
\* cell's write is done before the next cell is visited: next is bound to the
\* buffers as that write leaves them.
RECURSIVE scanCells(_, _, _, _, _)
scanCells(st, order, width, height, rule) ==
    IF order = << >> THEN st
    ELSE CHOOSE result \in
             {scanCells(next, Tail(order), width, height, rule) :
                 next \in {scanCell(st, Head(order), width, height, rule)}} : TRUE

\* for y, for x: the indexes y*width+x in ascending order.
RowMajor(width, height) == [k \in 1 .. (width * height) |-> k - 1]

\* Both buffers when simulationStep returns.
simulationScan(currentState, width, height, rule) ==
    scanCells([currentState |-> currentState,
               newState |-> [index \in DOMAIN currentState |-> 0]],
              RowMajor(width, height), width, height, rule)

simulationStep(currentState, width, height, rule) ==
    simulationScan(currentState, width, height, rule).newState

createInitialGrid(width, height, initialPattern) ==
    [index \in 0 .. (width * height - 1) |->
        IF \E i \in DOMAIN initialPattern :
              LET x == JsMod(initialPattern[i].x + width, width)
                  y == JsMod(initialPattern[i].y + height, height)
              IN  y * width + x = index
        THEN 1 ELSE 0]

(***************************************************************************)
(* Rule text (utils/ruleParser.ts).  A string is the sequence of its       *)
(* characters; parsing and formatting work on the characters as the code   *)
(* does.                                                                   *)
(***************************************************************************)
\* The characters the pattern's \d matches, at the position of their value
\* plus one.
DigitChars == << "0", "1", "2", "3", "4", "5", "6", "7", "8", "9" >>
IsDigit(c) == \E i \in DOMAIN DigitChars : DigitChars[i] = c
\* Number(c) for a digit character.
Number(c) == (CHOOSE i \in DOMAIN DigitChars : DigitChars[i] = c) - 1

\* String(n): the decimal text of a number that is not negative.
RECURSIVE String(_)
String(n) ==
    IF n < 10 THEN << DigitChars[n + 1] >>
    ELSE String(n \div 10) \o << DigitChars[(n % 10) + 1] >>

\* a < b for two decimal texts, compared code unit by code unit.
RECURSIVE Precedes(_, _)
Precedes(a, b) ==
    IF b = << >> THEN FALSE
    ELSE IF a = << >> THEN TRUE
    ELSE IF Head(a) = Head(b) THEN Precedes(Tail(a), Tail(b))
    ELSE Number(Head(a)) < Number(Head(b))

\* Array.prototype.sort() without a comparator: the elements are ordered by
\* their texts, equal ones keeping their order.
RECURSIVE sort(_)
sort(arr) ==
    IF arr = << >> THEN << >>
    ELSE LET v == arr[Len(arr)]
             sorted == CHOOSE s \in {sort(SubSeq(arr, 1, Len(arr) - 1))} : TRUE
             k == Cardinality({i \in DOMAIN sorted :
                                  ~Precedes(String(v), String(sorted[i]))})
         IN  SubSeq(sorted, 1, k) \o << v >> \o SubSeq(sorted, k + 1, Len(sorted))

\* Array.prototype.join('').
RECURSIVE join(_)
join(arr) == IF arr = << >> THEN << >> ELSE String(Head(arr)) \o join(Tail(arr))

\* formatRuleString with the arrays joined as they are given.
formatRuleStringUnsorted(rule) ==
    << "B" >> \o join(rule.birth) \o << "/", "S" >> \o join(rule.survival)

formatRuleString(rule) ==
    LET birthStr == join(sort(rule.birth))
        survivalStr == join(sort(rule.survival))
    IN  << "B" >> \o birthStr \o << "/", "S" >> \o survivalStr

\* The rule as formatRuleString leaves it: sort() orders the array in place.
Sorted(rule) == [birth |-> sort(rule.birth), survival |-> sort(rule.survival)]

Whitespace == {" "}
\* String.prototype.trim().
trim(s) ==
    LET kept == {i \in DOMAIN s : s[i] \notin Whitespace}
    IN  IF kept = {} THEN << >>
        ELSE SubSeq(s, CHOOSE i \in kept : \A j \in kept : i <= j,
                       CHOOSE i \in kept : \A j \in kept : i >= j)

\* String.prototype.toUpperCase() on the letters a rule text is made of.
toUpperCase(s) ==
    [i \in DOMAIN s |-> CASE s[i] = "b" -> "B"
                          [] s[i] = "s" -> "S"
                          [] OTHER -> s[i]]

\* s.match(/^B(\d+)\/S(\d+)$/): the two groups, or no match.
NoMatch == [matched |-> FALSE]
match(s) ==
    LET AllDigits(from, to) == \A i \in from .. to : IsDigit(s[i])
        slashes == {i \in DOMAIN s :
                       /\ s[i] = "/"
                       /\ s[1] = "B"
                       /\ i >= 3
                       /\ AllDigits(2, i - 1)
                       /\ Len(s) >= i + 2
                       /\ s[i + 1] = "S"
                       /\ AllDigits(i + 2, Len(s))}
    IN  IF slashes = {} THEN NoMatch
        ELSE LET i == CHOOSE k \in slashes : TRUE
             IN  [matched |-> TRUE,
                  birth |-> SubSeq(s, 2, i - 1),
                  survival |-> SubSeq(s, i + 2, Len(s))]

\* What a call that throws gives: the Error and its message.
Thrown(message) == [error |-> message]
IsThrown(result) == "error" \in DOMAIN result
InvalidRuleFormat == "Invalid rule format. Expected format: B3/S23"

parseRuleString(ruleString) ==
    LET trimmed == toUpperCase(trim(ruleString))
        m == match(trimmed)
    IN  IF ~m.matched THEN Thrown(InvalidRuleFormat)
        ELSE [birth |-> [i \in DOMAIN m.birth |-> Number(m.birth[i])],
              survival |-> [i \in DOMAIN m.survival |-> Number(m.survival[i])]]

isValidRuleString(ruleString) == ~IsThrown(parseRuleString(ruleString))

\* The text as one string value.
RECURSIVE Text(_)
Text(chars) == IF chars = << >> THEN "" ELSE Head(chars) \o Text(Tail(chars))

\* The names getRuleDisplayName knows, by rule text.
commonRules ==
    "B3/S23" :> "Conway's Game of Life" @@ "B36/S23" :> "HighLife" @@
    "B3/S1234" :> "Replicator" @@ "B2/S" :> "Seeds" @@
    "B25/S4" :> "Day & Night" @@ "B1357/S1357" :> "Fredkin" @@
    "B1/S1" :> "Gnarl" @@ "B1/S012345678" :> "Live Free or Die" @@
    "B5678/S45678" :> "Maze" @@ "B3/S012345678" :> "Maze with Mice" @@
    "B3/S12345" :> "Mazectric" @@ "B2/S0" :> "Serviettes" @@
    "B234/S" :> "Walled Cities" @@ "B45678/S2345" :> "Coral" @@
    "B45678/S123" :> "Anneal" @@ "B45678/S012345678" :> "Diamoeba" @@
    "B35678/S5678" :> "Amoeba" @@ "B378/S012345678" :> "Pseudo Life" @@
    "B378/S235678" :> "2x2" @@ "B36/S125" :> "Move" @@
    "B368/S245" :> "Morley" @@ "B4678/S35678" :> "Dot Life"

getRuleDisplayName(rule) ==
    LET ruleString == Text(formatRuleString(rule))
    IN  IF ruleString \in DOMAIN commonRules THEN commonRules[ruleString]
        ELSE ruleString

(***************************************************************************)
(* JSON.  A value JSON.parse returns is tagged with its type; an object's  *)
(* members are the properties it has, an absent property reads undefined.  *)
(* A JSON text is kept as the value it stands for, or as text that is not  *)
(* JSON.                                                                   *)
(***************************************************************************)
Undefined == [type |-> "undefined"]
JNull == [type |-> "null"]
JString(text) == [type |-> "string", text |-> text]
JArray(items) == [type |-> "array", items |-> items]
JObject(members) == [type |-> "object", members |-> members]
\* value.property for a value that is not null or undefined.
Get(value, property) ==
    IF value.type = "object" /\ property \in DOMAIN value.members
    THEN value.members[property] ELSE Undefined
\* !value is false.
Truthy(value) ==
    /\ value.type \notin {"undefined", "null"}
    /\ value.type = "string" => value.text # ""

JsonText(data) == [json |-> TRUE, data |-> data]
NotJson(text) == [json |-> FALSE, text |-> text]

\* The rule object of parsed data has arrays on both sides.
HasArrays(rule) ==
    /\ Get(rule, "birth").type = "array"
    /\ Get(rule, "survival").type = "array"
\* The rule object as the CellRule it is when it has arrays on both sides;
\* any other object is kept as parsed.
AsRule(rule) ==
    IF HasArrays(rule)
    THEN [birth |-> Get(rule, "birth").items, survival |-> Get(rule, "survival").items]
    ELSE rule
IsCellRule(rule) == "birth" \in DOMAIN rule

\* formatRuleString on a rule as imported: the text, or the TypeError of a
\* side that has no sort().
formatImported(rule) ==
    IF IsCellRule(rule) THEN [text |-> formatRuleString(rule)]
    ELSE IF Get(rule, "birth").type # "array"
         THEN Thrown("rule.birth.sort is not a function")
         ELSE Thrown("rule.survival.sort is not a function")

\* The rule as formatImported leaves it: the arrays sorted up to the side
\* that has no sort().
SortedImported(rule) ==
    IF IsCellRule(rule) THEN Sorted(rule)
    ELSE IF Get(rule, "birth").type # "array" THEN rule
    ELSE JObject([rule.members EXCEPT !.birth = JArray(sort(@.items))])

\* The error JSON.parse or the body throws is caught and thrown again with
\* 'Failed to import rule: ' before its message.  When the data has no
\* name, getRuleDisplayName formats the rule, which sorts its arrays.
importRuleFromJSON(jsonString) ==
    LET Failed(message) == Thrown("Failed to import rule: " \o message)
    IN  IF ~jsonString.json THEN Failed("Unexpected token")
        ELSE LET data == jsonString.data
                 rule == Get(data, "rule")
             IN  IF data.type = "null"
                 THEN Failed("Cannot read properties of null (reading 'rule')")
                 ELSE IF \/ ~Truthy(rule)
                         \/ ~Truthy(Get(rule, "birth"))
                         \/ ~Truthy(Get(rule, "survival"))
                 THEN Failed("Invalid rule data in JSON")
                 ELSE IF Truthy(Get(data, "name"))
                 THEN [rule |-> AsRule(rule), name |-> Get(data, "name").text]
                 ELSE IF ~IsCellRule(AsRule(rule))
                 THEN Failed(formatImported(AsRule(rule)).error)
                 ELSE [rule |-> Sorted(AsRule(rule)),
                       name |-> getRuleDisplayName(AsRule(rule))]

\* No rule error shown (ruleError is null).
NoError == "null"
\* The state of the Controls component once it has rendered with a rule.
\* formatted is history: the rule as the last formatRuleString call got it.
Controls(rule) ==
    [mounted |-> TRUE, ruleInput |-> formatRuleString(rule), ruleError |-> NoError,
     showImportExport |-> FALSE, importText |-> NotJson(""),
     edits |-> 0, formatted |-> rule, imports |-> 0, crashed |-> FALSE]

(***************************************************************************)
(* The canvas (components/Canvas.tsx): its drawing state before any mouse  *)
(* event.  events and before are history: the mouse events handled so far  *)
(* and the grid's cells when the first of them came.                       *)
(***************************************************************************)
CanvasIdle ==
    [isDrawing |-> FALSE, drawMode |-> FALSE, isDragging |-> FALSE,
     events |-> << >>, before |-> << >>]

(***************************************************************************)
(* The rule marketplace (utils/marketplaceAPI.ts).  The objects of         *)
(* SAMPLE_RULES are shared: an entry of the API's rules array is either a  *)
(* reference to one of them or an object of its own (added, or parsed from *)
(* localStorage).  createdAt is kept as the date's digits.                 *)
(***************************************************************************)
SAMPLE_RULES ==
    << [id |-> "1", name |-> "Conway's Game of Life",
        rule |-> [birth |-> << 3 >>, survival |-> << 2, 3 >>],
        votes |-> 150, createdAt |-> 20240101],
       [id |-> "2", name |-> "HighLife",
        rule |-> [birth |-> << 3, 6 >>, survival |-> << 2, 3 >>],
        votes |-> 89, createdAt |-> 20240115],
       [id |-> "3", name |-> "Seeds",
        rule |-> [birth |-> << 2 >>, survival |-> << >>],
        votes |-> 45, createdAt |-> 20240201],
       [id |-> "4", name |-> "Day & Night",
        rule |-> [birth |-> << 2, 5 >>, survival |-> << 4 >>],
        votes |-> 67, createdAt |-> 20240215],
       [id |-> "5", name |-> "Maze",
        rule |-> [birth |-> << 5, 6, 7, 8 >>, survival |-> << 4, 5, 6, 7, 8 >>],
        votes |-> 78, createdAt |-> 20240301] >>

Shared(index) == [shared |-> TRUE, index |-> index]
Own(object) == [shared |-> FALSE, object |-> object]
\* [...SAMPLE_RULES]: a new array of the same objects.
SampleCopy == [i \in DOMAIN SAMPLE_RULES |-> Shared(i)]
\* The object an entry stands for.
Deref(m, entry) == IF entry.shared THEN m.samples[entry.index] ELSE entry.object
\* JSON.stringify(rules), and JSON.parse of it: objects of their own.
Stringify(m) == [stored |-> TRUE, rules |-> [k \in DOMAIN m.rules |-> Deref(m, m.rules[k])]]
NothingStored == [stored |-> FALSE]
loadRules(storage) ==
    IF storage.stored THEN [k \in DOMAIN storage.rules |-> Own(storage.rules[k])]
    ELSE SampleCopy
\* The API object once the module is loaded.  last and returned are
\* history: the last call that finished and what it returned.
MarketplaceAPI(storage) ==
    [samples |-> SAMPLE_RULES, rules |-> loadRules(storage), storage |-> storage,
     calls |-> 0, last |-> "new", returned |-> << >>]

(***************************************************************************)
(* State.                                                                  *)
(***************************************************************************)
VARIABLES
    config,             \* React state: [rule, speed, isRunning]
    gridState,          \* React state: [width, height, cells]; epoch is history
    isProcessingRef,    \* a step request was posted and not answered
    timeSinceLastStep,  \* performance.now() - lastStepTimeRef.current, capped
    animationFrameRef,  \* position in rafQueue of the request whose id the ref
                        \* holds; 0 when it is null or that callback has run
    rafQueue,           \* callbacks given to requestAnimationFrame, oldest first
    inbox,              \* messages posted to the worker, not yet handled
    outbox,             \* replies and error events on their way to the hook
    currentRule,        \* the worker's module variable
    resets,             \* history: calls of reset() so far
    timeSinceLastIssue, \* history: time since the last step request was posted
    canvas,             \* React state and refs of Canvas: [isDrawing, drawMode,
                        \* isDragging]; events and before are history
    marketplace,        \* the MarketplaceAPI object with SAMPLE_RULES and
                        \* localStorage: [samples, rules, storage]
    controls            \* React state of Controls: [ruleInput, ruleError,
                        \* showImportExport, importText]; mounted, edits,
                        \* formatted, imports and crashed are history

vars == << config, gridState, isProcessingRef, timeSinceLastStep,
           animationFrameRef, rafQueue, inbox, outbox, currentRule,
           resets, timeSinceLastIssue, controls, canvas, marketplace >>


(***************************************************************************)
(* Messages.  The field history is not part of the program's message: it  *)
(* records where the message came from, for stating properties.            *)
(***************************************************************************)
StepMessage(grid, rule, by) ==
    [type |-> "SIMULATION_STEP",
     payload |-> [currentState |-> grid.cells, width |-> grid.width,
                  height |-> grid.height, rule |-> rule],
     history |-> [by |-> by, epoch |-> grid.epoch]]

InitMessage(width, height, initialPattern, epoch) ==
    [type |-> "INIT_GRID",
     payload |-> [width |-> width, height |-> height,
                  initialPattern |-> initialPattern],
     history |-> [epoch |-> epoch]]

UpdateRuleMessage(rule) ==
    [type |-> "UPDATE_RULE", payload |-> [rule |-> rule]]

\* The reply the worker posts for a message; request is the message handled.
SimulationResult(request) ==
    [type |-> "SIMULATION_RESULT",
     payload |-> [newState |-> simulationStep(request.payload.currentState,
                                              request.payload.width,
                                              request.payload.height,
                                              request.payload.rule)],
     history |-> [request |-> request.payload, epoch |-> request.history.epoch,
                  currentState |-> simulationScan(request.payload.currentState,
                                                  request.payload.width,
                                                  request.payload.height,
                                                  request.payload.rule).currentState]]

GridInitialized(request) ==
    [type |-> "GRID_INITIALIZED",
     payload |-> [initialState |-> createInitialGrid(request.payload.width,
                                                     request.payload.height,
                                                     request.payload.initialPattern)],
     history |-> [request |-> request.payload, epoch |-> request.history.epoch]]

RuleUpdated(rule) ==
    [type |-> "RULE_UPDATED", payload |-> [rule |-> rule]]

\* The error event the Worker object fires when the handler throws.
ErrorEvent == [type |-> "error"]

IsStepRequest(m) == m.type = "SIMULATION_STEP"
IsStepAnswer(m) == m.type \in {"SIMULATION_RESULT", "error"}

(***************************************************************************)
(* The animation loop.                                                     *)
(***************************************************************************)
\* What a stepSimulation callback created by a render closes over.
Closure(cfg, grid) ==
    [isRunning |-> cfg.isRunning, speed |-> cfg.speed, rule |-> cfg.rule,
     gridState |-> grid]

RemoveAt(q, k) == [i \in 1 .. (Len(q) - 1) |-> IF i < k THEN q[i] ELSE q[i + 1]]

\* The effect with dependencies [config.isRunning, stepSimulation]: it
\* requests a frame for the new callback, or cancels the one request whose
\* id animationFrameRef holds.  It never cancels on the running branch.
AnimationEffect(cfg, grid, queue, ref) ==
    IF cfg.isRunning
    THEN [queue |-> Append(queue, Closure(cfg, grid)), ref |-> Len(queue) + 1]
    ELSE IF ref # 0
         THEN [queue |-> RemoveAt(queue, ref), ref |-> 0]
         ELSE [queue |-> queue, ref |-> ref]

\* Faulty variant of stepSimulation: the callback does not test
\* isProcessingRef.  C1 must fail with it.
stepSimulationUnguarded(c, st) ==
    IF ~c.isRunning
    THEN st
    ELSE LET due == st.since * c.speed >= 1000
             posted == IF due
                       THEN [st EXCEPT !.isProcessing = TRUE,
                                       !.inbox = Append(@, StepMessage(c.gridState, c.rule, "tick")),
                                       !.since = 0]
                       ELSE st
         IN  [posted EXCEPT !.queue = Append(@, c),
                            !.ref = Len(posted.queue) + 1]

\* One run of a stepSimulation callback c.  st holds what the callbacks of
\* one frame read and write: the refs, the worker's inbox and the requests
\* made for the next frame.
stepSimulation(c, st) ==
    IF ~c.isRunning \/ st.isProcessing
    THEN st
    ELSE LET due == st.since * c.speed >= 1000
             posted == IF due
                       THEN [st EXCEPT !.isProcessing = TRUE,
                                       !.inbox = Append(@, StepMessage(c.gridState, c.rule, "tick")),
                                       !.since = 0]
                       ELSE st
         IN  [posted EXCEPT !.queue = Append(@, c),
                            !.ref = Len(posted.queue) + 1]

RECURSIVE RunCallbacks(_, _)
RunCallbacks(callbacks, st) ==
    IF callbacks = << >> THEN st
    ELSE RunCallbacks(Tail(callbacks), stepSimulation(Head(callbacks), st))

Elapse(t) == Min(TimeCap, t + FrameMs)

(***************************************************************************)
(* Initial state: the hook is mounted, the worker is created and the       *)
(* mount effect has posted INIT_GRID with the glider.                      *)
(***************************************************************************)
\* lastStepTimeRef starts at 0 and performance.now() counts from page load,
\* so the first tick finds more than any step interval elapsed.
Init ==
    /\ config = [rule |-> DefaultRule, speed |-> DefaultSpeed, isRunning |-> FALSE]
    /\ gridState = [width |-> DEFAULT_GRID_SIZE, height |-> DEFAULT_GRID_SIZE,
                    cells |-> [i \in 0 .. (DEFAULT_GRID_SIZE * DEFAULT_GRID_SIZE - 1) |-> 0],
                    epoch |-> 0]
    /\ controls = Controls(config.rule)
    /\ canvas = CanvasIdle
    /\ marketplace = MarketplaceAPI(NothingStored)
    /\ isProcessingRef = FALSE
    /\ timeSinceLastStep = TimeCap
    /\ animationFrameRef = 0
    /\ rafQueue = << >>
    /\ inbox = << InitMessage(DEFAULT_GRID_SIZE, DEFAULT_GRID_SIZE, InitialPattern, 0) >>
    /\ outbox = << >>
    /\ currentRule = DefaultRule
    /\ resets = 0
    /\ timeSinceLastIssue = TimeCap

(***************************************************************************)
(* Control domain: the handlers the hook returns, each with the re-render  *)
(* and the animation effect that follow its state update.                  *)
(***************************************************************************)
\* The render after a state update whose new callback differs from the old.
Rerender(cfg, grid) ==
    LET e == AnimationEffect(cfg, grid, rafQueue, animationFrameRef)
    IN  /\ Len(e.queue) <= MaxPending
        /\ rafQueue' = e.queue
        /\ animationFrameRef' = e.ref

togglePlayPause ==
    /\ config' = [config EXCEPT !.isRunning = ~config.isRunning]
    /\ Rerender(config', gridState)
    /\ UNCHANGED << canvas, marketplace, controls, gridState, isProcessingRef, timeSinceLastStep, inbox, outbox,
                    currentRule, resets, timeSinceLastIssue >>

\* The callback's dependency config.speed changes only with the value.
updateSpeed(speed) ==
    /\ config' = [config EXCEPT !.speed = speed]
    /\ IF speed # config.speed
       THEN Rerender(config', gridState)
       ELSE UNCHANGED << rafQueue, animationFrameRef >>
    /\ UNCHANGED << canvas, marketplace, controls, gridState, isProcessingRef, timeSinceLastStep, inbox, outbox,
                    currentRule, resets, timeSinceLastIssue >>

\* Every caller passes a freshly built rule object, so the callback's
\* dependency config.rule changes even when the digits are the same.
updateRule(rule) ==
    /\ Len(inbox) < MaxInbox
    /\ config' = [config EXCEPT !.rule = rule]
    /\ inbox' = Append(inbox, UpdateRuleMessage(rule))
    /\ Rerender(config', gridState)
    /\ UNCHANGED << canvas, marketplace, controls, gridState, isProcessingRef, timeSinceLastStep, outbox,
                    currentRule, resets, timeSinceLastIssue >>

\* toggleCell's new buffer with the cell made live whatever it was.
newCellsSetLive(cells, width, x, y) ==
    LET index == y * width + x
    IN  IF index \in DOMAIN cells THEN [cells EXCEPT ![index] = 1] ELSE cells

\* toggleCell's new buffer with the cell's value counted up.
newCellsCountedUp(cells, width, x, y) ==
    LET index == y * width + x
    IN  IF index \in DOMAIN cells THEN [cells EXCEPT ![index] = @ + 1] ELSE cells

\* The buffer toggleCell(x, y) stores: a copy of cells with the cell at
\* y * width + x turned over; a write outside a typed array is ignored.
newCells(cells, width, x, y) ==
    LET index == y * width + x
    IN  IF index \in DOMAIN cells
        THEN [cells EXCEPT ![index] = IF @ = 1 THEN 0 ELSE 1]
        ELSE cells

onCellClick(x, y) ==
    /\ gridState' = [gridState EXCEPT
                         !.cells = newCells(gridState.cells, gridState.width, x, y)]
    /\ Rerender(config, gridState')
    /\ UNCHANGED << marketplace, controls, config, isProcessingRef, timeSinceLastStep, inbox, outbox,
                    currentRule, resets, timeSinceLastIssue >>

\* toggleCell called by anything but the canvas.
toggleCell(x, y) == onCellClick(x, y) /\ UNCHANGED canvas

\* Faulty variant of step: it posts a request whether or not one is in
\* flight.  C6 must fail with it.
stepUnguarded ==
    /\ Len(inbox) < MaxInbox
    /\ isProcessingRef' = TRUE
    /\ inbox' = Append(inbox, StepMessage(gridState, config.rule, "step"))
    /\ timeSinceLastIssue' = 0
    /\ UNCHANGED << canvas, marketplace, controls, config, gridState, timeSinceLastStep, animationFrameRef,
                    rafQueue, outbox, currentRule, resets >>

step ==
    IF isProcessingRef
    THEN UNCHANGED vars
    ELSE /\ Len(inbox) < MaxInbox
         /\ isProcessingRef' = TRUE
         /\ inbox' = Append(inbox, StepMessage(gridState, config.rule, "step"))
         /\ timeSinceLastIssue' = 0
         /\ UNCHANGED << canvas, marketplace, controls, config, gridState, timeSinceLastStep, animationFrameRef,
                         rafQueue, outbox, currentRule, resets >>

\* Faulty variant of reset: it also forgets the request in flight.  C37 must
\* fail with it.
resetClearsProcessing ==
    /\ Len(inbox) < MaxInbox
    /\ resets < MaxResets
    /\ resets' = resets + 1
    /\ inbox' = Append(inbox, InitMessage(gridState.width, gridState.height, << >>, resets'))
    /\ isProcessingRef' = FALSE
    /\ UNCHANGED << canvas, marketplace, controls, config, gridState, timeSinceLastStep,
                    animationFrameRef, rafQueue, outbox, currentRule,
                    timeSinceLastIssue >>

reset ==
    /\ Len(inbox) < MaxInbox
    /\ resets < MaxResets
    /\ resets' = resets + 1
    /\ inbox' = Append(inbox, InitMessage(gridState.width, gridState.height, << >>, resets'))
    /\ UNCHANGED << canvas, marketplace, controls, config, gridState, isProcessingRef, timeSinceLastStep,
                    animationFrameRef, rafQueue, outbox, currentRule,
                    timeSinceLastIssue >>

\* An animation frame: the browser runs every callback requested before the
\* frame, oldest first; requests made by them wait for the next frame.
Frame ==
    LET st == RunCallbacks(rafQueue,
                  [isProcessing |-> isProcessingRef,
                   since |-> Elapse(timeSinceLastStep),
                   inbox |-> inbox, queue |-> << >>, ref |-> 0])
    IN  /\ Len(st.inbox) <= MaxInbox
        /\ isProcessingRef' = st.isProcessing
        /\ timeSinceLastStep' = st.since
        /\ inbox' = st.inbox
        /\ rafQueue' = st.queue
        /\ animationFrameRef' = st.ref
        /\ timeSinceLastIssue' = IF st.inbox # inbox THEN 0 ELSE Elapse(timeSinceLastIssue)
        /\ UNCHANGED << canvas, marketplace, controls, config, gridState, outbox, currentRule, resets >>

(***************************************************************************)
(* Control domain: workerRef.current.onmessage and onerror.                *)
(***************************************************************************)
\* Faulty variant of onSimulationResult: isProcessingRef stays set.  C7 must
\* fail with it.
onSimulationResultKeepsProcessing ==
    /\ outbox # << >>
    /\ Head(outbox).type = "SIMULATION_RESULT"
    /\ gridState' = [gridState EXCEPT !.cells = Head(outbox).payload.newState,
                                      !.epoch = Head(outbox).history.epoch]
    /\ outbox' = Tail(outbox)
    /\ Rerender(config, gridState')
    /\ UNCHANGED << canvas, marketplace, controls, config, isProcessingRef, timeSinceLastStep, inbox,
                    currentRule, resets, timeSinceLastIssue >>

\* Faulty variant of onSimulationResult: a result computed from a snapshot
\* that is no longer the grid is dropped, so that later toggles are kept.
onSimulationResultKeepsToggles ==
    /\ outbox # << >>
    /\ Head(outbox).type = "SIMULATION_RESULT"
    /\ gridState' =
           IF gridState.cells = Head(outbox).history.request.currentState
           THEN [gridState EXCEPT !.cells = Head(outbox).payload.newState,
                                  !.epoch = Head(outbox).history.epoch]
           ELSE gridState
    /\ isProcessingRef' = FALSE
    /\ outbox' = Tail(outbox)
    /\ Rerender(config, gridState')
    /\ UNCHANGED << canvas, marketplace, controls, config, timeSinceLastStep, inbox, currentRule, resets,
                    timeSinceLastIssue >>

\* Faulty variant of onSimulationResult: the new grid causes no render, so
\* the animation effect does not run again.  C36 must fail with it.
onSimulationResultNoRender ==
    /\ outbox # << >>
    /\ Head(outbox).type = "SIMULATION_RESULT"
    /\ gridState' = [gridState EXCEPT !.cells = Head(outbox).payload.newState,
                                      !.epoch = Head(outbox).history.epoch]
    /\ isProcessingRef' = FALSE
    /\ outbox' = Tail(outbox)
    /\ UNCHANGED << canvas, marketplace, controls, config, timeSinceLastStep, inbox, currentRule, resets,
                    timeSinceLastIssue, rafQueue, animationFrameRef >>

onSimulationResult ==
    /\ outbox # << >>
    /\ Head(outbox).type = "SIMULATION_RESULT"
    /\ gridState' = [gridState EXCEPT !.cells = Head(outbox).payload.newState,
                                      !.epoch = Head(outbox).history.epoch]
    /\ isProcessingRef' = FALSE
    /\ outbox' = Tail(outbox)
    /\ Rerender(config, gridState')
    /\ UNCHANGED << canvas, marketplace, controls, config, timeSinceLastStep, inbox, currentRule, resets,
                    timeSinceLastIssue >>

onGridInitialized ==
    /\ outbox # << >>
    /\ Head(outbox).type = "GRID_INITIALIZED"
    /\ gridState' = [gridState EXCEPT !.cells = Head(outbox).payload.initialState,
                                      !.epoch = Head(outbox).history.epoch]
    /\ outbox' = Tail(outbox)
    /\ Rerender(config, gridState')
    /\ UNCHANGED << canvas, marketplace, controls, config, isProcessingRef, timeSinceLastStep, inbox,
                    currentRule, resets, timeSinceLastIssue >>

onRuleUpdated ==
    /\ outbox # << >>
    /\ Head(outbox).type = "RULE_UPDATED"
    /\ outbox' = Tail(outbox)
    /\ UNCHANGED << canvas, marketplace, controls, config, gridState, isProcessingRef, timeSinceLastStep,
                    animationFrameRef, rafQueue, inbox, currentRule, resets,
                    timeSinceLastIssue >>

\* Faulty variant of onerror: isProcessingRef stays set.  C10 must fail with
\* it.
onerrorKeepsProcessing ==
    /\ outbox # << >>
    /\ Head(outbox).type = "error"
    /\ outbox' = Tail(outbox)
    /\ UNCHANGED << canvas, marketplace, controls, config, gridState, isProcessingRef, timeSinceLastStep,
                    animationFrameRef, rafQueue, inbox, currentRule, resets,
                    timeSinceLastIssue >>

onerror ==
    /\ outbox # << >>
    /\ Head(outbox).type = "error"
    /\ isProcessingRef' = FALSE
    /\ outbox' = Tail(outbox)
    /\ UNCHANGED << canvas, marketplace, controls, config, gridState, timeSinceLastStep, animationFrameRef,
                    rafQueue, inbox, currentRule, resets, timeSinceLastIssue >>

(***************************************************************************)
(* Compute domain: the worker's message handler, one message at a time in  *)
(* receipt order.                                                          *)
(***************************************************************************)
WorkerReply(reply) ==
    /\ Len(outbox) < MaxOutbox
    /\ inbox' = Tail(inbox)
    /\ outbox' = Append(outbox, reply)

\* Faulty variant of workerSimulationStep: the step is computed with the
\* worker's stored currentRule instead of the request's rule.
workerSimulationStepStoredRule ==
    /\ inbox # << >>
    /\ Head(inbox).type = "SIMULATION_STEP"
    /\ WorkerReply([SimulationResult(Head(inbox)) EXCEPT
                        !.payload.newState =
                            simulationStep(Head(inbox).payload.currentState,
                                           Head(inbox).payload.width,
                                           Head(inbox).payload.height,
                                           currentRule)])
    /\ UNCHANGED << canvas, marketplace, controls, config, gridState, isProcessingRef,
                    timeSinceLastStep, animationFrameRef, rafQueue, currentRule, resets,
                    timeSinceLastIssue >>

workerSimulationStep ==
    /\ inbox # << >>
    /\ Head(inbox).type = "SIMULATION_STEP"
    /\ WorkerReply(SimulationResult(Head(inbox)))
    /\ UNCHANGED << canvas, marketplace, controls, config, gridState, isProcessingRef, timeSinceLastStep,
                    animationFrameRef, rafQueue, currentRule, resets,
                    timeSinceLastIssue >>

\* simulationStep throws (the only case of the handler that can, on the
\* messages the hook posts): the Worker object fires an error event and the
\* handler posts no result.
workerSimulationStepThrows ==
    /\ inbox # << >>
    /\ Head(inbox).type = "SIMULATION_STEP"
    /\ WorkerReply(ErrorEvent)
    /\ UNCHANGED << canvas, marketplace, controls, config, gridState, isProcessingRef, timeSinceLastStep,
                    animationFrameRef, rafQueue, currentRule, resets,
                    timeSinceLastIssue >>

\* new Uint8Array(n) returns an array for every n >= 0, the empty one for 0,
\* and throws a RangeError for a negative n.
workerInitGrid ==
    /\ inbox # << >>
    /\ Head(inbox).type = "INIT_GRID"
    /\ Head(inbox).payload.width * Head(inbox).payload.height >= 0
    /\ WorkerReply(GridInitialized(Head(inbox)))
    /\ UNCHANGED << canvas, marketplace, controls, config, gridState, isProcessingRef, timeSinceLastStep,
                    animationFrameRef, rafQueue, currentRule, resets,
                    timeSinceLastIssue >>

\* createInitialGrid throws on a negative width * height: the Worker object
\* fires an error event and the handler posts no GRID_INITIALIZED.
workerInitGridThrows ==
    /\ inbox # << >>
    /\ Head(inbox).type = "INIT_GRID"
    /\ Head(inbox).payload.width * Head(inbox).payload.height < 0
    /\ WorkerReply(ErrorEvent)
    /\ UNCHANGED << canvas, marketplace, controls, config, gridState, isProcessingRef, timeSinceLastStep,
                    animationFrameRef, rafQueue, currentRule, resets,
                    timeSinceLastIssue >>

\* The UPDATE_RULE case without its acknowledgement.
workerUpdateRuleNoAck ==
    /\ inbox # << >>
    /\ Head(inbox).type = "UPDATE_RULE"
    /\ currentRule' = Head(inbox).payload.rule
    /\ inbox' = Tail(inbox)
    /\ UNCHANGED << canvas, marketplace, controls, config, gridState, isProcessingRef, timeSinceLastStep,
                    animationFrameRef, rafQueue, outbox, resets,
                    timeSinceLastIssue >>

workerUpdateRule ==
    /\ inbox # << >>
    /\ Head(inbox).type = "UPDATE_RULE"
    /\ currentRule' = Head(inbox).payload.rule
    /\ WorkerReply(RuleUpdated(currentRule'))
    /\ UNCHANGED << canvas, marketplace, controls, config, gridState, isProcessingRef, timeSinceLastStep,
                    animationFrameRef, rafQueue, resets, timeSinceLastIssue >>

Next ==
    \/ togglePlayPause
    \/ \E speed \in Speeds : updateSpeed(speed)
    \/ \E rule \in Rules : updateRule(rule)
    \/ \E p \in ToggleCells : toggleCell(p.x, p.y)
    \/ step
    \/ reset
    \/ Frame
    \/ onSimulationResult
    \/ onGridInitialized
    \/ onRuleUpdated
    \/ onerror
    \/ workerSimulationStep
    \/ workerSimulationStepThrows
    \/ workerInitGrid
    \/ workerUpdateRule

Spec == Init /\ [][Next]_vars

(***************************************************************************)
(* Observations the properties are stated with.                            *)
(***************************************************************************)
\* Step requests posted and not yet answered: those the worker has not
\* handled, and those whose result or error event the hook has not received.
Outstanding ==
    Cardinality({i \in DOMAIN inbox : IsStepRequest(inbox[i])})
    + Cardinality({i \in DOMAIN outbox : IsStepAnswer(outbox[i])})

\* This step posts one message to the worker.
Posted == Len(inbox') = Len(inbox) + 1 /\ inbox' = Append(inbox, inbox'[Len(inbox')])
PostedMessage == inbox'[Len(inbox')]
StepPosted == Posted /\ IsStepRequest(PostedMessage)
TickPosted == StepPosted /\ PostedMessage.history.by = "tick"

\* This step hands the oldest reply, of the given type, to the hook.
Delivered(type) ==
    /\ outbox # << >>
    /\ Head(outbox).type = type
    /\ outbox' = Tail(outbox)

\* This step is the worker handling the oldest message, of the given type.
Handled(type) ==
    /\ inbox # << >>
    /\ Head(inbox).type = type
    /\ inbox' = Tail(inbox)

(***************************************************************************)
(* Properties.                                                             *)
(***************************************************************************)
\* C1. Backpressure: in every reachable state at most one step request has
\* been posted to the worker and not yet answered by a result or an error.
C1_Backpressure == Outstanding <= 1

\* A request posted by a tick is outstanding while the loop runs and two
\* callbacks are waiting for the next frame.
C1_Witness ==
    /\ Outstanding = 1
    /\ isProcessingRef
    /\ config.isRunning
    /\ Len(rafQueue) >= 2
    /\ \E i \in DOMAIN inbox :
          IsStepRequest(inbox[i]) /\ inbox[i].history.by = "tick"

\* C2. Stale-result rejection: once every message is delivered, the grid
\* derives from the most recent reset() (or from the mount's INIT_GRID when
\* reset() was never called), never from a snapshot taken before it.
C2_StaleResultRejected ==
    (inbox = << >> /\ outbox = << >>) => gridState.epoch = resets

\* C3. Every step request on its way to the worker, and every step result
\* on its way back, carries a sequence number.
C3_SequenceNumbers ==
    /\ \A i \in DOMAIN inbox :
          IsStepRequest(inbox[i]) => "sequence" \in DOMAIN inbox[i].payload
    /\ \A i \in DOMAIN outbox :
          outbox[i].type = "SIMULATION_RESULT" => "sequence" \in DOMAIN outbox[i].payload

\* C4. While the controller is not running, no tick posts a step request.
C4_NoTickRequestWhileStopped ==
    [][TickPosted => config.isRunning]_vars

\* C5. A tick posts a step request only if at least 1000/speed milliseconds
\* have passed since the most recent step request was posted, by a tick or
\* by step().
C5_TickWaitsForInterval ==
    [][TickPosted => Elapse(timeSinceLastIssue) * config.speed >= 1000]_vars

\* C6. step() with no request in flight posts exactly one step request, of
\* the current grid and rule, and sets isProcessingRef, running or not, and
\* changes nothing else; with a request in flight it changes nothing.
C6_ManualStep ==
    [][step =>
        IF isProcessingRef
        THEN UNCHANGED vars
        ELSE /\ StepPosted
             /\ PostedMessage.payload =
                    [currentState |-> gridState.cells, width |-> gridState.width,
                     height |-> gridState.height, rule |-> config.rule]
             /\ isProcessingRef'
             /\ UNCHANGED << canvas, marketplace, controls, config, gridState, rafQueue, animationFrameRef,
                             outbox, timeSinceLastStep >>]_vars

\* A request posted by step() while the loop is running.
C6_Witness ==
    /\ config.isRunning
    /\ isProcessingRef
    /\ \E i \in DOMAIN inbox :
          IsStepRequest(inbox[i]) /\ inbox[i].history.by = "step"

\* C7. Delivery of a step result clears isProcessingRef and makes the grid's
\* cells the result's buffer; width, height, rule, speed and isRunning stay.
C7_ResultDelivery ==
    [][Delivered("SIMULATION_RESULT") =>
        /\ ~isProcessingRef'
        /\ gridState'.cells = Head(outbox).payload.newState
        /\ gridState'.width = gridState.width
        /\ gridState'.height = gridState.height
        /\ config' = config]_vars

\* A result that differs from the grid is about to be delivered.
C7_Witness ==
    /\ outbox # << >>
    /\ Head(outbox).type = "SIMULATION_RESULT"
    /\ Head(outbox).payload.newState # gridState.cells
    /\ isProcessingRef
    /\ config.isRunning

\* C8. Every step request carries the controller's rule as it is when the
\* request is posted, and the worker computes a result with the rule of the
\* request it answers.
C8_RuleOfRequest ==
    [][/\ StepPosted => PostedMessage.payload.rule = config.rule
       /\ (Handled("SIMULATION_STEP") /\ outbox' # outbox
             /\ outbox'[Len(outbox')].type = "SIMULATION_RESULT") =>
            outbox'[Len(outbox')].payload.newState =
                simulationStep(Head(inbox).payload.currentState,
                               Head(inbox).payload.width,
                               Head(inbox).payload.height,
                               Head(inbox).payload.rule)]_vars

\* C9. The snapshot of every step request is the grid's buffer as it is when
\* the request is posted, and posting leaves the grid unchanged.
C9_SnapshotIsCurrentGrid ==
    [][StepPosted =>
        /\ PostedMessage.payload.currentState = gridState.cells
        /\ gridState' = gridState]_vars

\* C10. Delivery of a worker error clears isProcessingRef, leaves the grid,
\* the rule, the speed and isRunning unchanged, and posts nothing.
C10_ErrorDelivery ==
    [][Delivered("error") =>
        /\ ~isProcessingRef'
        /\ gridState' = gridState
        /\ config' = config
        /\ inbox' = inbox]_vars

\* The error of the request in flight is about to be delivered while the
\* loop is running.
C10_Witness ==
    /\ outbox # << >>
    /\ Head(outbox).type = "error"
    /\ isProcessingRef
    /\ config.isRunning

(***************************************************************************)
(* The loop left to itself: the user has started the animation and does    *)
(* nothing more.  The browser keeps driving frames, the worker keeps       *)
(* handling messages and replies keep being delivered.                     *)
(***************************************************************************)
\* Any grid, rule and speed; the animation has just been started, so the
\* frame requested by the effect is pending and no message is in transit.
AutoInit ==
    /\ config \in [rule : Rules, speed : Speeds, isRunning : {TRUE}]
    /\ gridState \in [width : {DEFAULT_GRID_SIZE}, height : {DEFAULT_GRID_SIZE},
                      cells : [0 .. (DEFAULT_GRID_SIZE * DEFAULT_GRID_SIZE - 1) -> {0, 1}],
                      epoch : {0}]
    /\ controls = Controls(config.rule)
    /\ canvas = CanvasIdle
    /\ marketplace = MarketplaceAPI(NothingStored)
    /\ isProcessingRef = FALSE
    /\ timeSinceLastStep = TimeCap
    /\ animationFrameRef = 1
    /\ rafQueue = << Closure(config, gridState) >>
    /\ inbox = << >>
    /\ outbox = << >>
    /\ currentRule = DefaultRule
    /\ resets = 0
    /\ timeSinceLastIssue = TimeCap

WorkerHandles == workerSimulationStep \/ workerSimulationStepThrows
HookReceives == onSimulationResult \/ onerror

AutoNext ==
    \/ Frame
    \/ workerSimulationStep
    \/ workerSimulationStepThrows
    \/ onSimulationResult
    \/ onerror

SpecAuto ==
    /\ AutoInit
    /\ [][AutoNext]_vars
    /\ WF_vars(Frame)
    /\ WF_vars(WorkerHandles)
    /\ WF_vars(HookReceives)

\* C11. Self-healing: when the failure of the request in flight is reported
\* while the controller is running, a new step request is eventually posted
\* without any user action.
C11_SelfHealing ==
    (config.isRunning /\ outbox # << >> /\ Head(outbox).type = "error")
        ~> (\E i \in DOMAIN inbox : IsStepRequest(inbox[i]))

(***************************************************************************)
(* A worker that goes silent: it takes a step request and neither replies  *)
(* nor raises an error event (it hangs, or the browser has ended it).      *)
(***************************************************************************)
workerSilent ==
    /\ inbox # << >>
    /\ IsStepRequest(Head(inbox))
    /\ inbox' = Tail(inbox)
    /\ UNCHANGED << canvas, marketplace, controls, config, gridState, isProcessingRef, timeSinceLastStep,
                   animationFrameRef, rafQueue, outbox, currentRule, resets,
                   timeSinceLastIssue>>

SilentNext == Next \/ workerSilent

SpecSilent == Init /\ [][SilentNext]_vars

\* Stepping has stalled on a request that was never answered: the request
\* is marked in flight, and neither it nor an answer to it is in transit.
Stalled == isProcessingRef /\ Outstanding = 0

\* C12. Recovery from a stall: when stepping has stalled on a request that
\* was never answered, a manual step() posts a new step request.
C12_ManualStepRecovers == Stalled => ENABLED (step /\ StepPosted)

\* The kind of reply the handler posts for each kind of message.
RequestKinds == {"SIMULATION_STEP", "INIT_GRID", "UPDATE_RULE"}
ReplyKind(type) ==
    CASE type = "SIMULATION_STEP" -> "SIMULATION_RESULT"
      [] type = "INIT_GRID" -> "GRID_INITIALIZED"
      [] type = "UPDATE_RULE" -> "RULE_UPDATED"

\* This step appends one reply, of one of the given kinds, behind the
\* replies already waiting.
Replied(kinds) ==
    /\ Len(outbox') = Len(outbox) + 1
    /\ outbox' = Append(outbox, outbox'[Len(outbox')])
    /\ outbox'[Len(outbox')].type \in kinds

\* Messages leave the inbox, and replies the outbox, only from the front,
\* and replies are added only at the back.
InOrder ==
    /\ Len(inbox') < Len(inbox) => inbox' = Tail(inbox)
    /\ Len(outbox') < Len(outbox) => outbox' = Tail(outbox)
    /\ Len(outbox') > Len(outbox) => \E type \in RequestKinds : Handled(type)

MaxCells == 9
MaxSide == 5

Seeds == [birth |-> <<2>>, survival |-> << >>]
EngineRules == Rules \cup {Seeds}

\* Every grid of at most MaxCells cells, sides of 1 included.
SmallGrids ==
    UNION {[width : {w}, height : {h}, cells : [0 .. (w * h - 1) -> {0, 1}],
            epoch : {0}] :
           <<w, h>> \in {p \in (1 .. MaxCells) \X (1 .. MaxCells) :
                             p[1] * p[2] <= MaxCells}}

Grid(width, height, pattern) ==
    [width |-> width, height |-> height,
     cells |-> createInitialGrid(width, height, pattern), epoch |-> 0]

\* pattern moved by (dx, dy).
Translate(pattern, dx, dy) ==
    [i \in DOMAIN pattern |-> [x |-> pattern[i].x + dx, y |-> pattern[i].y + dy]]

\* A 2 by 2 block with its top left corner at (0, 0).
Block == << [x |-> 0, y |-> 0], [x |-> 1, y |-> 0],
            [x |-> 0, y |-> 1], [x |-> 1, y |-> 1] >>

\* A block at every position of every grid with sides from 2 to MaxSide.
BlockGrids ==
    {Grid(w, h, Translate(Block, px, py)) :
        <<w, h, px, py>> \in {q \in (2 .. MaxSide) \X (2 .. MaxSide)
                                    \X (0 .. MaxSide - 1) \X (0 .. MaxSide - 1) :
                                 q[3] < q[1] /\ q[4] < q[2]}}

GliderSeed ==
    << [x |-> 1, y |-> 1], [x |-> 2, y |-> 1], [x |-> 3, y |-> 1],
       [x |-> 3, y |-> 2], [x |-> 2, y |-> 3] >>
GliderGrid == Grid(6, 6, GliderSeed)

\* A line of three cells from (0, 0), lying and standing.
BlinkerAcross == << [x |-> 0, y |-> 0], [x |-> 1, y |-> 0], [x |-> 2, y |-> 0] >>
BlinkerUpright == << [x |-> 0, y |-> 0], [x |-> 0, y |-> 1], [x |-> 0, y |-> 2] >>

\* A blinker, lying or standing, at every position of every grid with sides
\* from 3 to MaxSide.
BlinkerGrids ==
    {Grid(q[1], q[2], Translate(q[5], q[3], q[4])) :
        q \in {q \in (3 .. MaxSide) \X (3 .. MaxSide)
                    \X (0 .. MaxSide - 1) \X (0 .. MaxSide - 1)
                    \X {BlinkerAcross, BlinkerUpright} :
                 q[3] < q[1] /\ q[4] < q[2]}}

EngineInit ==
    /\ gridState \in SmallGrids \cup BlockGrids \cup BlinkerGrids \cup {GliderGrid}
    /\ config \in [rule : IF gridState \in SmallGrids THEN EngineRules
                          ELSE {DefaultRule},
                   speed : {DefaultSpeed}, isRunning : {FALSE}]
    /\ controls = Controls(config.rule)
    /\ canvas = CanvasIdle
    /\ marketplace = MarketplaceAPI(NothingStored)
    /\ isProcessingRef = FALSE
    /\ timeSinceLastStep = TimeCap
    /\ animationFrameRef = 0
    /\ rafQueue = << >>
    /\ inbox = << >>
    /\ outbox = << >>
    /\ currentRule = DefaultRule
    /\ resets = 0
    /\ timeSinceLastIssue = TimeCap

EngineNext ==
    \/ step
    \/ workerSimulationStep
    \/ onSimulationResult

EngineSpec == EngineInit /\ [][EngineNext]_vars

\* The worker has computed a generation and the result is on its way: the
\* snapshot it was computed from, the grid's sides, the rule, and the output.
Computed == outbox # << >> /\ Head(outbox).type = "SIMULATION_RESULT"
Snapshot == Head(outbox).history.request.currentState
SnapshotWidth == Head(outbox).history.request.width
SnapshotHeight == Head(outbox).history.request.height
SnapshotRule == Head(outbox).history.request.rule
Output == Head(outbox).payload.newState

\* simulationStep applied n times.
RECURSIVE Generations(_, _, _, _, _)
Generations(cells, width, height, rule, n) ==
    IF n = 0 THEN cells
    ELSE Generations(simulationStep(cells, width, height, rule),
                     width, height, rule, n - 1)

\* The elements of a rule's birth or survival list.
Members(arr) == {arr[i] : i \in DOMAIN arr}

\* The number of the eight offsets whose cell, at ((x + dx) mod width,
\* (y + dy) mod height) with the modulo of mathematics, is live.
LiveNeighbors(cells, x, y, width, height) ==
    Cardinality({d \in Offsets :
        cells[((y + d[2]) % height) * width + ((x + d[1]) % width)] = 1})

\* C14. Rule application: every cell of the output is 1 exactly when the cell
\* is live in the snapshot and its live-neighbour count is in the survival
\* list, or dead in the snapshot and the count is in the birth list.
C14_RuleApplication ==
    Computed =>
        \A x \in 0 .. (SnapshotWidth - 1), y \in 0 .. (SnapshotHeight - 1) :
            LET index == y * SnapshotWidth + x
                count == LiveNeighbors(Snapshot, x, y, SnapshotWidth, SnapshotHeight)
            IN  Output[index] =
                    IF \/ Snapshot[index] = 1 /\ count \in Members(SnapshotRule.survival)
                       \/ Snapshot[index] = 0 /\ count \in Members(SnapshotRule.birth)
                    THEN 1 ELSE 0

\* One generation in which a cell survives, a cell dies and a cell is born.
C14_Witness ==
    /\ Computed
    /\ \E i, j, k \in DOMAIN Snapshot :
          /\ Snapshot[i] = 1 /\ Output[i] = 1
          /\ Snapshot[j] = 1 /\ Output[j] = 0
          /\ Snapshot[k] = 0 /\ Output[k] = 1

\* C15. Synchronous update: when simulationStep returns, its input buffer is
\* as it was on entry, and every cell of the output is the decision taken for
\* that cell alone on the buffer as it was on entry.
C15_SynchronousUpdate ==
    Computed =>
        /\ Head(outbox).history.currentState = Snapshot
        /\ \A index \in DOMAIN Snapshot :
              Output[index] =
                  scanCell([currentState |-> Snapshot, newState |-> Output], index,
                           SnapshotWidth, SnapshotHeight, SnapshotRule).newState[index]

\* A generation that changes the grid, on a grid at least three cells wide.
C15_Witness == Computed /\ SnapshotWidth >= 3 /\ Output # Snapshot

MaxPermuted == 4

\* Orders in which the cells may be visited other than the code's: the
\* reverse, column by column, and every order when the cells are few.
Reversed(order) == [k \in DOMAIN order |-> order[Len(order) + 1 - k]]
ColumnMajor(width, height) ==
    [k \in 1 .. (width * height) |-> ((k - 1) % height) * width + ((k - 1) \div height)]
VisitingOrders(width, height) ==
    {Reversed(RowMajor(width, height)), ColumnMajor(width, height)}
    \cup (IF width * height <= MaxPermuted
          THEN {order \in [1 .. (width * height) -> 0 .. (width * height - 1)] :
                   \A a, b \in DOMAIN order : a # b => order[a] # order[b]}
          ELSE {})

\* C16. Determinism: the output for a snapshot and a rule does not depend on
\* the order in which the cells are visited.
C16_OrderIndependent ==
    Computed =>
        \A order \in VisitingOrders(SnapshotWidth, SnapshotHeight) :
            scanCells([currentState |-> Snapshot,
                       newState |-> [index \in DOMAIN Snapshot |-> 0]],
                      order, SnapshotWidth, SnapshotHeight, SnapshotRule).newState
            = Output

\* A generation that changes the grid, on a grid with more than one row and
\* more than one column.
C16_Witness ==
    Computed /\ SnapshotWidth >= 2 /\ SnapshotHeight >= 2 /\ Output # Snapshot

\* C17. Toroidal wraparound: countNeighbors counts the live cells at
\* ((x + dx) mod width, (y + dy) mod height), coordinates that are never
\* negative, so that the cell at (0, 0) counts the cell at
\* (width - 1, height - 1) as a neighbour.
C17_Wraparound ==
    Computed =>
        /\ \A x \in 0 .. (SnapshotWidth - 1), y \in 0 .. (SnapshotHeight - 1) :
              countNeighbors(Snapshot, x, y, SnapshotWidth, SnapshotHeight)
              = LiveNeighbors(Snapshot, x, y, SnapshotWidth, SnapshotHeight)
        /\ Snapshot[(SnapshotHeight - 1) * SnapshotWidth + (SnapshotWidth - 1)] = 1
              => countNeighbors(Snapshot, 0, 0, SnapshotWidth, SnapshotHeight) >= 1

\* A generation computed from a grid, three cells wide and three high, whose
\* only live cell is the one at (width - 1, height - 1).
C17_Witness ==
    /\ Computed
    /\ SnapshotWidth = 3 /\ SnapshotHeight = 3
    /\ Snapshot = createInitialGrid(3, 3, << [x |-> 2, y |-> 2] >>)
    /\ countNeighbors(Snapshot, 0, 0, 3, 3) = 1

\* cells with the cell at index turned over.
Flipped(cells, index) == [cells EXCEPT ![index] = 1 - @]

\* The neighbour count of no cell changes when that cell is turned over.
OwnStateNotCounted ==
    \A x \in 0 .. (SnapshotWidth - 1), y \in 0 .. (SnapshotHeight - 1) :
        countNeighbors(Flipped(Snapshot, y * SnapshotWidth + x), x, y,
                       SnapshotWidth, SnapshotHeight)
        = countNeighbors(Snapshot, x, y, SnapshotWidth, SnapshotHeight)

\* C18 as stated. For every grid, widths and heights of 1 and 2 included,
\* the state of a cell does not contribute to its own neighbour count.
C18_NeverCountsItself == Computed => OwnStateNotCounted

\* C18. Amended: for every grid at least two cells wide and two cells high,
\* the state of a cell does not contribute to its own neighbour count.
C18_NeverCountsItselfFromTwo ==
    (Computed /\ SnapshotWidth >= 2 /\ SnapshotHeight >= 2) => OwnStateNotCounted

\* A generation computed from the 2 by 2 grid with every cell live.
C18_Witness ==
    /\ Computed
    /\ SnapshotWidth = 2 /\ SnapshotHeight = 2
    /\ \A index \in DOMAIN Snapshot : Snapshot[index] = 1

\* The worker has computed the fourth generation of the glider on the 6 by 6
\* grid under B3/S23.
GliderFourth ==
    /\ Computed
    /\ SnapshotWidth = 6 /\ SnapshotHeight = 6
    /\ SnapshotRule = DefaultRule
    /\ Snapshot = Generations(GliderGrid.cells, 6, 6, DefaultRule, 3)

\* C19 as stated. The fourth generation of the glider seeded at (1,1), (2,1),
\* (3,1), (3,2), (2,3) on the 6 by 6 grid is the seed moved by (+1, +1).
C19_GliderDownRight ==
    GliderFourth => Output = createInitialGrid(6, 6, Translate(GliderSeed, 1, 1))

\* C19. Amended: the fourth generation of that glider is the seed moved by
\* (+1, -1), modulo the grid's sides.
C19_GliderUpRight ==
    GliderFourth => Output = createInitialGrid(6, 6, Translate(GliderSeed, 1, -1))

C19_Witness == GliderFourth /\ Output # Snapshot

\* The snapshot is a 2 by 2 block on an otherwise dead grid, under B3/S23.
BlockSnapshot ==
    /\ Computed
    /\ SnapshotRule = DefaultRule
    /\ SnapshotWidth >= 2 /\ SnapshotHeight >= 2
    /\ \E px \in 0 .. (SnapshotWidth - 1), py \in 0 .. (SnapshotHeight - 1) :
          Snapshot = createInitialGrid(SnapshotWidth, SnapshotHeight,
                                       Translate(Block, px, py))

\* C20 as stated. Under B3/S23 the block is a still life on every grid that
\* can hold it, at every position.
C20_BlockStillLife == BlockSnapshot => Output = Snapshot

\* C20. Amended: under B3/S23 the block is a still life on every grid at
\* least three cells wide and three cells high, at every position.
C20_BlockStillLifeFromThree ==
    (BlockSnapshot /\ SnapshotWidth >= 3 /\ SnapshotHeight >= 3)
        => Output = Snapshot

\* A block that lies across both edges of the largest grid.
C20_Witness ==
    /\ BlockSnapshot
    /\ SnapshotWidth = MaxSide /\ SnapshotHeight = MaxSide
    /\ Snapshot = createInitialGrid(MaxSide, MaxSide,
                                    Translate(Block, MaxSide - 1, MaxSide - 1))
    /\ Output = Snapshot

\* The snapshot is the lying blinker moved by (px, py), or the standing one,
\* on a grid at least four cells wide and four high, under B3/S23.
BlinkerAt(pattern, px, py) ==
    /\ Computed
    /\ SnapshotRule = DefaultRule
    /\ SnapshotWidth >= 4 /\ SnapshotHeight >= 4
    /\ Snapshot = createInitialGrid(SnapshotWidth, SnapshotHeight,
                                    Translate(pattern, px, py))

MaxGridCells == 4

GridInit ==
    /\ gridState \in
           UNION {[width : {w}, height : {h},
                   cells : [0 .. (w * h - 1) -> {0, 1}], epoch : {0}] :
                  <<w, h>> \in {p \in (1 .. MaxGridCells) \X (1 .. MaxGridCells) :
                                    p[1] * p[2] <= MaxGridCells}}
    /\ config = [rule |-> DefaultRule, speed |-> DefaultSpeed, isRunning |-> FALSE]
    /\ controls = Controls(config.rule)
    /\ canvas = CanvasIdle
    /\ marketplace = MarketplaceAPI(NothingStored)
    /\ isProcessingRef = FALSE
    /\ timeSinceLastStep = TimeCap
    /\ animationFrameRef = 0
    /\ rafQueue = << >>
    /\ inbox = << >>
    /\ outbox = << >>
    /\ currentRule = DefaultRule
    /\ resets = 0
    /\ timeSinceLastIssue = TimeCap

GridNext ==
    \/ \E x \in -1 .. gridState.width, y \in -1 .. gridState.height : toggleCell(x, y)
    \/ step
    \/ reset
    \/ workerSimulationStep
    \/ workerInitGrid
    \/ onSimulationResult
    \/ onGridInitialized

GridSpec == GridInit /\ [][GridNext]_vars

\* (x, y) is a cell of the grid.
InRange(x, y) ==
    x \in 0 .. (gridState.width - 1) /\ y \in 0 .. (gridState.height - 1)

\* C22. Idempotent toggle: toggleCell(x, y) on a cell of the grid changes the
\* cell at index y * width + x and no other, and the buffer a second
\* toggleCell(x, y) then stores is the original one.
C22_IdempotentToggle ==
    [][\A x \in 0 .. (gridState.width - 1), y \in 0 .. (gridState.height - 1) :
          toggleCell(x, y) =>
              /\ DOMAIN gridState'.cells = DOMAIN gridState.cells
              /\ \A i \in DOMAIN gridState.cells :
                    (gridState'.cells[i] # gridState.cells[i])
                        <=> (i = y * gridState.width + x)
              /\ newCells(gridState'.cells, gridState'.width, x, y)
                     = gridState.cells]_vars

\* After a reset has emptied the 2 by 2 grid, one cell has been made live.
C22_Witness ==
    /\ gridState.epoch = 1
    /\ gridState.width = 2 /\ gridState.height = 2
    /\ Cardinality({i \in DOMAIN gridState.cells : gridState.cells[i] = 1}) = 1
    /\ inbox = << >> /\ outbox = << >>

C24_ResultOverwritesToggles ==
    [][Delivered("SIMULATION_RESULT") =>
          gridState'.cells =
              simulationStep(Head(outbox).history.request.currentState,
                             Head(outbox).history.request.width,
                             Head(outbox).history.request.height,
                             Head(outbox).history.request.rule)]_vars

\* A result is about to be delivered to a grid that differs in one cell from
\* the snapshot the result was computed from, and from the result.
C24_Witness ==
    /\ Computed
    /\ \E index \in DOMAIN Snapshot : gridState.cells = Flipped(Snapshot, index)
    /\ gridState.cells # Output
    /\ Output # Snapshot

\* C25. Grid invariant: no step changes width or height, and after every step
\* the buffer has width * height cells, each 0 or 1.
C25_GridInvariant ==
    [][/\ gridState'.width = gridState.width
       /\ gridState'.height = gridState.height
       /\ DOMAIN gridState'.cells = 0 .. (gridState.width * gridState.height - 1)
       /\ \A i \in DOMAIN gridState'.cells : gridState'.cells[i] \in {0, 1}]_vars

\* After a reset and a toggle, a step's result waits for delivery.
C25_Witness ==
    /\ Computed
    /\ resets = 1
    /\ gridState.epoch = 1
    /\ \E i \in DOMAIN gridState.cells : gridState.cells[i] = 1

(***************************************************************************)
(* Grid creation on its own: an INIT_GRID message whose sides and pattern  *)
(* are drawn from bounded sets, sides of zero and below and positions far  *)
(* outside the grid included, handled by the worker and delivered.         *)
(***************************************************************************)
MaxCreateSide == 2
MaxCoord == 5
MaxPositions == 2

Positions == [x : -MaxCoord .. MaxCoord, y : -MaxCoord .. MaxCoord]
Patterns == UNION {[1 .. n -> Positions] : n \in 0 .. MaxPositions}

CreateInit ==
    /\ gridState = Grid(DEFAULT_GRID_SIZE, DEFAULT_GRID_SIZE, << [x |-> 0, y |-> 0] >>)
    /\ config = [rule |-> DefaultRule, speed |-> DefaultSpeed, isRunning |-> FALSE]
    /\ controls = Controls(config.rule)
    /\ canvas = CanvasIdle
    /\ marketplace = MarketplaceAPI(NothingStored)
    /\ isProcessingRef = FALSE
    /\ timeSinceLastStep = TimeCap
    /\ animationFrameRef = 0
    /\ rafQueue = << >>
    /\ \E width \in -MaxCreateSide .. MaxCreateSide,
          height \in -MaxCreateSide .. MaxCreateSide :
          \E initialPattern \in (IF width >= 1 /\ height >= 1 THEN Patterns
                                 ELSE {<< >>}) :
              inbox = << InitMessage(width, height, initialPattern, 0) >>
    /\ outbox = << >>
    /\ currentRule = DefaultRule
    /\ resets = 0
    /\ timeSinceLastIssue = TimeCap

CreateNext ==
    \/ workerInitGrid
    \/ workerInitGridThrows
    \/ onGridInitialized
    \/ onerror

CreateSpec == CreateInit /\ [][CreateNext]_vars

\* The worker has created a grid and the reply is on its way: the sides and
\* the pattern it was asked for, and the buffer.
Created == outbox # << >> /\ Head(outbox).type = "GRID_INITIALIZED"
CreatedWidth == Head(outbox).history.request.width
CreatedHeight == Head(outbox).history.request.height
CreatedPattern == Head(outbox).history.request.initialPattern
CreatedCells == Head(outbox).payload.initialState

\* C26. Grid creation: for positive sides the buffer has width * height
\* cells, and the cell (cx, cy) is live exactly when some given position
\* (px, py) has cx = px mod width and cy = py mod height, with the modulo of
\* mathematics, positions below -width or -height included.
C26_CreateWraps ==
    (Created /\ CreatedWidth >= 1 /\ CreatedHeight >= 1) =>
        /\ DOMAIN CreatedCells = 0 .. (CreatedWidth * CreatedHeight - 1)
        /\ \A cx \in 0 .. (CreatedWidth - 1), cy \in 0 .. (CreatedHeight - 1) :
              (CreatedCells[cy * CreatedWidth + cx] = 1)
              <=> \E i \in DOMAIN CreatedPattern :
                      /\ cx = CreatedPattern[i].x % CreatedWidth
                      /\ cy = CreatedPattern[i].y % CreatedHeight

\* C27. Invalid dimensions: no GRID_INITIALIZED is ever posted for a width or
\* a height of zero or below.
C27_InvalidDimensions ==
    Created => (CreatedWidth >= 1 /\ CreatedHeight >= 1)


(***************************************************************************)
(* The rule editor (components/Controls.tsx with utils/ruleParser.ts):     *)
(* Controls renders with a rule whose arrays are in any order, then the    *)
(* user edits the rule text.                                               *)
(***************************************************************************)
\* Largest neighbour count in the rules and texts tried.
MaxDigit == 2
\* Longest birth or survival array of the rule Controls first renders with.
MaxRuleLen == 2
\* Longest rule text typed from scratch.
MaxText == 4
\* Edits of the rule text.
MaxEdits == 1

RuleArrays == UNION {[1 .. n -> 1 .. MaxDigit] : n \in 0 .. MaxRuleLen}
Alphabet == {"B", "S", "/", " "} \cup {DigitChars[d + 1] : d \in 1 .. MaxDigit}
Texts == UNION {[1 .. n -> Alphabet] : n \in 0 .. MaxText}
\* The text in lower case, as a user may type it.
toLowerCase(s) ==
    [i \in DOMAIN s |-> CASE s[i] = "B" -> "b"
                          [] s[i] = "S" -> "s"
                          [] OTHER -> s[i]]
\* What the user may put in the field: any short text, or the text shown
\* typed again as it is, in lower case or with blanks around it.
Typed == Texts \cup {controls.ruleInput, toLowerCase(controls.ruleInput),
                     << " " >> \o controls.ruleInput \o << " " >>}

ParserInit ==
    /\ config \in [rule : [birth : RuleArrays, survival : RuleArrays],
                   speed : {DefaultSpeed}, isRunning : {FALSE}]
    /\ gridState = Grid(DEFAULT_GRID_SIZE, DEFAULT_GRID_SIZE, << >>)
    /\ controls = [mounted |-> FALSE, ruleInput |-> << >>, ruleError |-> NoError,
                   showImportExport |-> FALSE, importText |-> NotJson(""),
                   edits |-> 0, formatted |-> [birth |-> << >>, survival |-> << >>],
                   imports |-> 0, crashed |-> FALSE]
    /\ canvas = CanvasIdle
    /\ marketplace = MarketplaceAPI(NothingStored)
    /\ isProcessingRef = FALSE
    /\ timeSinceLastStep = TimeCap
    /\ animationFrameRef = 0
    /\ rafQueue = << >>
    /\ inbox = << >>
    /\ outbox = << >>
    /\ currentRule = DefaultRule
    /\ resets = 0
    /\ timeSinceLastIssue = TimeCap

\* The first render of Controls: useState(formatRuleString(config.rule)).
\* sort() orders config.rule's own arrays, and no state is set.
mountControls ==
    /\ ~controls.mounted
    /\ controls' = [controls EXCEPT !.mounted = TRUE,
                                    !.ruleInput = formatRuleString(config.rule),
                                    !.formatted = config.rule]
    /\ config' = [config EXCEPT !.rule = Sorted(config.rule)]
    /\ UNCHANGED << canvas, marketplace, gridState, isProcessingRef, timeSinceLastStep, animationFrameRef,
                    rafQueue, inbox, outbox, currentRule, resets,
                    timeSinceLastIssue >>

\* onRuleChange is the hook's updateRule: the message carries the rule as
\* parsed, and the render of Controls that follows sorts config.rule.
onRuleChange(rule) ==
    /\ Len(inbox) < MaxInbox
    /\ config' = [config EXCEPT !.rule = Sorted(rule)]
    /\ inbox' = Append(inbox, UpdateRuleMessage(rule))
    /\ Rerender(config', gridState)
    /\ UNCHANGED << canvas, marketplace, gridState, isProcessingRef, timeSinceLastStep, outbox,
                    currentRule, resets, timeSinceLastIssue >>

handleRuleInputChange(value) ==
    LET valid == isValidRuleString(value)
        rule == parseRuleString(value)
        called == valid /\ ~IsThrown(rule)
    IN  /\ controls.mounted
        /\ controls.edits < MaxEdits
        /\ controls' = [controls EXCEPT
                           !.ruleInput = value,
                           !.ruleError = IF valid /\ IsThrown(rule)
                                         THEN "Invalid rule format" ELSE NoError,
                           !.edits = @ + 1,
                           !.formatted = IF called THEN rule ELSE config.rule]
        /\ IF called THEN onRuleChange(rule)
           ELSE UNCHANGED << canvas, marketplace, config, gridState, isProcessingRef, timeSinceLastStep,
                             animationFrameRef, rafQueue, inbox, outbox,
                             currentRule, resets, timeSinceLastIssue >>

ParserNext ==
    \/ mountControls
    \/ \E value \in Typed : handleRuleInputChange(value)
    \/ workerUpdateRule
    \/ onRuleUpdated

ParserSpec == ParserInit /\ [][ParserNext]_vars

\* A call of handleRuleInputChange, and what it made of the text.
Edited == controls'.edits = controls.edits + 1
RuleSent == Posted /\ PostedMessage.type = "UPDATE_RULE"
SentRule == PostedMessage.payload.rule

\* C28. parseRuleString accepts a text whose survival side has no digits:
\* when 'B2/S' is put in the field, parseRuleString returns birth [2] and
\* survival [], isValidRuleString is true and that rule is passed on; and
\* for every text put in the field, isValidRuleString is true exactly when
\* parseRuleString does not throw.
C28_EmptySurvivalSide ==
    [][Edited =>
          LET value == controls'.ruleInput
          IN  /\ isValidRuleString(value) <=> ~IsThrown(parseRuleString(value))
              /\ value = << "B", "2", "/", "S" >> =>
                     /\ parseRuleString(value) = Seeds
                     /\ isValidRuleString(value)
                     /\ RuleSent /\ SentRule = Seeds]_vars

NoDuplicates(arr) == \A i, j \in DOMAIN arr : arr[i] = arr[j] => i = j
\* The rule's values are neighbour counts, none of them twice on a side.
Canonical(rule) ==
    /\ NoDuplicates(rule.birth) /\ NoDuplicates(rule.survival)
    /\ Members(rule.birth) \cup Members(rule.survival) \subseteq 0 .. 8

\* C29. Rule text round trip: when the text formatRuleString made of a rule
\* without duplicates (an empty birth or survival side included) is put in
\* the field, parseRuleString succeeds and returns a rule with the same birth
\* set and the same survival set.
C29_RoundTrip ==
    [][Edited /\ Canonical(config.rule)
              /\ controls'.ruleInput = formatRuleString(config.rule) =>
          LET parsed == parseRuleString(controls'.ruleInput)
          IN  /\ ~IsThrown(parsed)
              /\ Members(parsed.birth) = Members(config.rule.birth)
              /\ Members(parsed.survival) = Members(config.rule.survival)
              /\ RuleSent /\ SentRule = parsed]_vars

\* The digits of the array in ascending order, from digit d on.
RECURSIVE AscendingFrom(_, _)
AscendingFrom(arr, d) ==
    IF d > 9 THEN << >>
    ELSE [i \in 1 .. Cardinality({j \in DOMAIN arr : arr[j] = d}) |-> DigitChars[d + 1]]
         \o AscendingFrom(arr, d + 1)

\* C30. formatRuleString(rule) is 'B', the birth digits in ascending order,
\* '/S' and the survival digits in ascending order, whatever order the
\* digits have in the rule's arrays.
C30_FormatSorts ==
    [][~controls.mounted /\ controls'.mounted =>
          controls'.ruleInput =
              << "B" >> \o AscendingFrom(config.rule.birth, 0)
                        \o << "/", "S" >> \o AscendingFrom(config.rule.survival, 0)]_vars

\* Controls has rendered with a rule whose two sides were both out of order.
C30_Witness ==
    /\ controls.mounted /\ controls.edits = 0
    /\ controls.formatted = [birth |-> << 2, 1 >>, survival |-> << 2, 1 >>]
    /\ controls.ruleInput = << "B", "1", "2", "/", "S", "1", "2" >>


(***************************************************************************)
(* Rule import (Controls.tsx handleImportRule with importRuleFromJSON):    *)
(* the user puts a text in the import field and presses Import, or edits   *)
(* the rule text.                                                          *)
(***************************************************************************)
\* Imports pressed.
MaxImports == 1

\* The object with the properties of r that are not undefined.
Present(r) == [f \in {g \in DOMAIN r : r[g] # Undefined} |-> r[f]]
Optional(values) == values \cup {Undefined}
ImportNames == {JString("Test Rule"), JString("")}
ImportSides == {JNull, JString("3"), JArray(<< >>), JArray(<< 3 >>),
                JArray(<< 2, 1 >>), JArray(<< 9 >>)}
RuleObjects == {JObject(Present([birth |-> b, survival |-> s])) :
                   b \in Optional(ImportSides), s \in Optional(ImportSides)}
ImportData ==
    {JNull} \cup {JObject(Present([name |-> n, rule |-> r])) :
                     n \in Optional(ImportNames),
                     r \in Optional(RuleObjects \cup {JNull})}
ImportTexts == {NotJson("invalid json")} \cup {JsonText(data) : data \in ImportData}
\* Rule texts put in the field beside the imports.
ImportTyped == {<< >>, << "B", "2", "/", "S" >>, << "B", "9", "/", "S", "1" >>,
                << "B", "3", "6", "/", "S", "2", "3" >>, << "S", "2", "3" >>}

ImportInit ==
    /\ config = [rule |-> DefaultRule, speed |-> DefaultSpeed, isRunning |-> FALSE]
    /\ gridState = Grid(DEFAULT_GRID_SIZE, DEFAULT_GRID_SIZE, << >>)
    /\ controls = [Controls(config.rule) EXCEPT !.showImportExport = TRUE]
    /\ canvas = CanvasIdle
    /\ marketplace = MarketplaceAPI(NothingStored)
    /\ isProcessingRef = FALSE
    /\ timeSinceLastStep = TimeCap
    /\ animationFrameRef = 0
    /\ rafQueue = << >>
    /\ inbox = << >>
    /\ outbox = << >>
    /\ currentRule = DefaultRule
    /\ resets = 0
    /\ timeSinceLastIssue = TimeCap

\* The import field's onChange.
setImportText(text) ==
    /\ controls.mounted /\ ~controls.crashed /\ controls.showImportExport
    /\ controls.imports < MaxImports
    /\ controls.importText = NotJson("")
    /\ controls' = [controls EXCEPT !.importText = text, !.formatted = config.rule]
    /\ UNCHANGED << canvas, marketplace, config, gridState, isProcessingRef, timeSinceLastStep,
                    animationFrameRef, rafQueue, inbox, outbox, currentRule, resets,
                    timeSinceLastIssue >>

\* When formatRuleString throws after onRuleChange, the catch shows the
\* message; the render that follows throws in Controls too and no effect
\* of it runs.
handleImportRule ==
    LET result == importRuleFromJSON(controls.importText)
        formatted == formatImported(result.rule)
    IN  /\ controls.mounted /\ ~controls.crashed /\ controls.showImportExport
        /\ controls.imports < MaxImports
        /\ IF IsThrown(result)
           THEN /\ controls' = [controls EXCEPT !.ruleError = result.error,
                                                !.imports = @ + 1,
                                                !.formatted = config.rule]
                /\ UNCHANGED << canvas, marketplace, config, gridState, isProcessingRef, timeSinceLastStep,
                                animationFrameRef, rafQueue, inbox, outbox,
                                currentRule, resets, timeSinceLastIssue >>
           ELSE IF IsThrown(formatted)
           THEN /\ controls' = [controls EXCEPT !.ruleError = formatted.error,
                                                !.imports = @ + 1,
                                                !.formatted = result.rule,
                                                !.crashed = TRUE]
                /\ Len(inbox) < MaxInbox
                /\ config' = [config EXCEPT !.rule = SortedImported(result.rule)]
                /\ inbox' = Append(inbox, UpdateRuleMessage(result.rule))
                /\ UNCHANGED << canvas, marketplace, gridState, isProcessingRef, timeSinceLastStep,
                                animationFrameRef, rafQueue, outbox, currentRule,
                                resets, timeSinceLastIssue >>
           ELSE /\ controls' = [controls EXCEPT !.ruleInput = formatted.text,
                                                !.importText = NotJson(""),
                                                !.showImportExport = FALSE,
                                                !.imports = @ + 1,
                                                !.formatted = result.rule]
                /\ onRuleChange(result.rule)

ImportNext ==
    \/ \E text \in ImportTexts : setImportText(text)
    \/ handleImportRule
    \/ \E value \in ImportTyped : ~controls.crashed /\ handleRuleInputChange(value)
    \/ workerUpdateRule
    \/ onRuleUpdated

ImportSpec == ImportInit /\ [][ImportNext]_vars

\* A press of Import, and whether the press or the edit ended in failure.
Imported == controls'.imports = controls.imports + 1
ImportFailed == Imported /\ controls'.ruleError # NoError
EditFailed == Edited /\ IsThrown(parseRuleString(controls'.ruleInput))

\* No value, in the data's terms: the property is missing or null.
Absent(value) == value.type \in {"undefined", "null"}
InvalidRuleData == "Failed to import rule: Invalid rule data in JSON"

\* C31. Rule import: importRuleFromJSON fails with an 'Invalid rule data in
\* JSON' error whenever rule, rule.birth or rule.survival is absent from the
\* parsed data, and otherwise returns the rule unchanged with data.name, or
\* with the display name of the rule when there is no name.
C31_RuleImport ==
    controls.importText.json =>
        LET data == controls.importText.data
            rule == Get(data, "rule")
            name == Get(data, "name")
            result == importRuleFromJSON(controls.importText)
        IN  IF \/ Absent(rule)
               \/ Absent(Get(rule, "birth"))
               \/ Absent(Get(rule, "survival"))
            THEN IsThrown(result) /\ result.error = InvalidRuleData
            ELSE /\ ~IsThrown(result)
                 /\ result.rule = AsRule(rule)
                 /\ result.name = IF Truthy(name) THEN name.text
                                  ELSE getRuleDisplayName(AsRule(rule))

\* C32. A rule-text edit that fails to parse, or a JSON import that fails,
\* changes neither the rule, the grid, the request in flight nor running,
\* and posts no message to the worker.
C32_FailuresChangeNothing ==
    [][EditFailed \/ ImportFailed =>
          /\ config'.rule = config.rule
          /\ config'.isRunning = config.isRunning
          /\ gridState' = gridState
          /\ isProcessingRef' = isProcessingRef
          /\ inbox' = inbox]_vars

\* The rule has arrays of neighbour counts on both sides.
RuleInRange(rule) ==
    /\ IsCellRule(rule)
    /\ Members(rule.birth) \cup Members(rule.survival) \subseteq 0 .. 8

\* C33. Rule invariant: whatever rule texts were edited and whatever JSON
\* was imported, the controller's rule, and the rule of every message that
\* carries one to the worker, has only values in 0..8 in birth and survival.
C33_RuleInvariant ==
    /\ RuleInRange(config.rule)
    /\ \A i \in DOMAIN inbox :
           inbox[i].type \in {"UPDATE_RULE", "SIMULATION_STEP"} =>
               RuleInRange(inbox[i].payload.rule)

\* C38. formatRuleString leaves its rule argument as it was: when Controls
\* renders first and formats config.rule, the elements of config.rule.birth
\* and config.rule.survival are in the same order after the call as before.
C38_FormatLeavesRule ==
    [][~controls.mounted /\ controls'.mounted => config'.rule = config.rule]_vars


(***************************************************************************)
(* Drawing on the canvas (components/Canvas.tsx): mouse events on a small  *)
(* grid while the simulation is paused.  A mouse position is given by the  *)
(* grid coordinates it falls on (the pan and zoom arithmetic is left out); *)
(* getGridCoords keeps the positions inside the grid.  React renders       *)
(* between two events, so every handler sees the state the last one set.   *)
(***************************************************************************)
\* Mouse events handled.
MaxEvents == 3

\* Left button, left button with a modifier key, right button.
MouseButtons == {[button |-> 0, modifier |-> FALSE], [button |-> 0, modifier |-> TRUE],
                 [button |-> 2, modifier |-> FALSE]}
\* Positions on the canvas: the cells and the column right of the grid.
MousePositions == {[gridX |-> x, gridY |-> y] :
                      x \in 0 .. gridState.width, y \in 0 .. (gridState.height - 1)}
NoCoords == [inside |-> FALSE]
getGridCoords(e) ==
    IF e.gridX >= 0 /\ e.gridX < gridState.width
       /\ e.gridY >= 0 /\ e.gridY < gridState.height
    THEN [inside |-> TRUE, gridX |-> e.gridX, gridY |-> e.gridY]
    ELSE NoCoords

CanvasInit ==
    /\ gridState \in [width : {DEFAULT_GRID_SIZE}, height : {DEFAULT_GRID_SIZE},
                      cells : [0 .. (DEFAULT_GRID_SIZE * DEFAULT_GRID_SIZE - 1) -> {0, 1}],
                      epoch : {0}]
    /\ config = [rule |-> DefaultRule, speed |-> DefaultSpeed, isRunning |-> FALSE]
    /\ controls = Controls(config.rule)
    /\ canvas = CanvasIdle
    /\ marketplace = MarketplaceAPI(NothingStored)
    /\ isProcessingRef = FALSE
    /\ timeSinceLastStep = TimeCap
    /\ animationFrameRef = 0
    /\ rafQueue = << >>
    /\ inbox = << >>
    /\ outbox = << >>
    /\ currentRule = DefaultRule
    /\ resets = 0
    /\ timeSinceLastIssue = TimeCap

\* The history of a handled event.
Handle(event) ==
    [canvas EXCEPT !.events = Append(@, event),
                   !.before = IF canvas.events = << >> THEN gridState.cells ELSE @]
\* if (coords) onCellClick(coords.gridX, coords.gridY)
ClickCell(coords) ==
    IF coords.inside THEN onCellClick(coords.gridX, coords.gridY)
    ELSE UNCHANGED << marketplace, controls, config, gridState, isProcessingRef,
                      timeSinceLastStep, animationFrameRef, rafQueue, inbox, outbox,
                      currentRule, resets, timeSinceLastIssue >>

handleMouseDown(e) ==
    /\ Len(canvas.events) < MaxEvents
    /\ IF e.button = 0 /\ ~e.modifier
       THEN /\ canvas' = [Handle([type |-> "mousedown", e |-> e])
                              EXCEPT !.isDrawing = TRUE, !.drawMode = TRUE]
            /\ ClickCell(getGridCoords(e))
       ELSE /\ canvas' = [Handle([type |-> "mousedown", e |-> e])
                              EXCEPT !.isDragging = TRUE, !.drawMode = FALSE]
            /\ ClickCell(NoCoords)

\* While dragging, onCanvasDrag moves the pan, which is not in config here.
handleMouseMove(e) ==
    /\ Len(canvas.events) < MaxEvents
    /\ canvas' = Handle([type |-> "mousemove", e |-> e])
    /\ IF canvas.drawMode /\ canvas.isDrawing THEN ClickCell(getGridCoords(e))
       ELSE ClickCell(NoCoords)

handleMouseUp ==
    /\ Len(canvas.events) < MaxEvents
    /\ canvas' = [Handle([type |-> "mouseup"])
                      EXCEPT !.isDrawing = FALSE, !.isDragging = FALSE]
    /\ ClickCell(NoCoords)

handleClick(e) ==
    /\ Len(canvas.events) < MaxEvents
    /\ canvas' = Handle([type |-> "click", e |-> e])
    /\ IF ~canvas.isDrawing /\ canvas.drawMode THEN ClickCell(getGridCoords(e))
       ELSE ClickCell(NoCoords)

CanvasNext ==
    \/ \E b \in MouseButtons, p \in MousePositions :
           handleMouseDown([button |-> b.button, modifier |-> b.modifier,
                            gridX |-> p.gridX, gridY |-> p.gridY])
    \/ \E p \in MousePositions : handleMouseMove(p)
    \/ handleMouseUp
    \/ \E p \in MousePositions : handleClick(p)

CanvasSpec == CanvasInit /\ [][CanvasNext]_vars

\* The events were one plain left click on the cell at index i: mousedown,
\* mouseup and click at the same position with no movement between them.
SingleClick(i) ==
    /\ Len(canvas.events) = 3
    /\ canvas.events[1].type = "mousedown"
    /\ canvas.events[1].e.button = 0 /\ ~canvas.events[1].e.modifier
    /\ canvas.events[1].e.gridX < gridState.width
    /\ canvas.events[1].e.gridY * gridState.width + canvas.events[1].e.gridX = i
    /\ canvas.events[2].type = "mouseup"
    /\ canvas.events[3].type = "click"
    /\ canvas.events[3].e.gridX = canvas.events[1].e.gridX
    /\ canvas.events[3].e.gridY = canvas.events[1].e.gridY

\* C34. A single unmodified left click on a cell of the grid (mousedown,
\* mouseup, click on the same cell, no movement) flips that cell: after the
\* three events the cell's value differs from its value before, and no other
\* cell has changed.
C34_SingleClickFlips ==
    \A i \in DOMAIN gridState.cells :
        SingleClick(i) =>
            /\ gridState.cells[i] # canvas.before[i]
            /\ \A j \in DOMAIN gridState.cells \ {i} :
                   gridState.cells[j] = canvas.before[j]


(***************************************************************************)
(* The worker's step as a function of the request alone.                   *)
(***************************************************************************)
\* The hook is paused on a small grid, and a message of an earlier call is
\* on its way to the worker: a rule update with any rule, or a grid
\* initialisation.
WorkerInit ==
    /\ gridState \in SmallGrids
    /\ config \in [rule : EngineRules, speed : {DefaultSpeed}, isRunning : {FALSE}]
    /\ controls = Controls(config.rule)
    /\ canvas = CanvasIdle
    /\ marketplace = MarketplaceAPI(NothingStored)
    /\ isProcessingRef = FALSE
    /\ timeSinceLastStep = TimeCap
    /\ animationFrameRef = 0
    /\ rafQueue = << >>
    /\ inbox \in {<< UpdateRuleMessage(rule) >> : rule \in EngineRules}
                 \cup {<< InitMessage(gridState.width, gridState.height, << >>, 0) >>}
    /\ outbox = << >>
    /\ currentRule = DefaultRule
    /\ resets = 0
    /\ timeSinceLastIssue = TimeCap

WorkerNext ==
    \/ step
    \/ workerUpdateRule
    \/ workerInitGrid
    \/ workerSimulationStep
    \/ onRuleUpdated
    \/ onGridInitialized
    \/ onSimulationResult

WorkerSpec == WorkerInit /\ [][WorkerNext]_vars

\* The next generation of a grid under a rule, cell by cell.
NextGeneration(cells, width, height, rule) ==
    [index \in DOMAIN cells |->
        LET count == LiveNeighbors(cells, index % width, index \div width, width, height)
        IN  IF \/ cells[index] = 1 /\ count \in Members(rule.survival)
               \/ cells[index] = 0 /\ count \in Members(rule.birth)
            THEN 1 ELSE 0]

\* C35. The result of a step request depends only on the request's snapshot,
\* width, height and rule: whatever UPDATE_RULE and INIT_GRID messages the
\* worker handled before it, and whatever its stored currentRule is, the
\* result is the next generation of the snapshot under the request's rule.
C35_ResultOfRequestOnly ==
    Computed =>
        Output = NextGeneration(Snapshot, SnapshotWidth, SnapshotHeight, SnapshotRule)

\* A result is on its way whose request had another rule than the one the
\* worker has stored from an UPDATE_RULE, and the stored rule would have
\* given another grid.
C35_Witness ==
    /\ Computed
    /\ currentRule # SnapshotRule
    /\ currentRule # DefaultRule
    /\ Output # NextGeneration(Snapshot, SnapshotWidth, SnapshotHeight, currentRule)


(***************************************************************************)
(* The loop left to itself with a worker that answers every request: the   *)
(* animation is running, the browser keeps driving frames, the worker      *)
(* handles every step request without throwing and every result is         *)
(* delivered.                                                              *)
(***************************************************************************)
ProgressNext ==
    \/ Frame
    \/ workerSimulationStep
    \/ onSimulationResult

SpecProgress ==
    /\ AutoInit
    /\ [][ProgressNext]_vars
    /\ WF_vars(Frame)
    /\ WF_vars(workerSimulationStep)
    /\ WF_vars(onSimulationResult)

\* A tick has found the request in flight and returned without requesting
\* another frame: no callback is pending while the request is outstanding.
LoopEnded == config.isRunning /\ isProcessingRef /\ rafQueue = << >>

\* C36. Progress: while the controller is running, frames are driven and the
\* worker answers every request, step requests are posted again and again
\* without any user action, also after a tick has found a request in flight.
C36_Progress == []<><<Frame /\ StepPosted>>_vars

C36_Witness == LoopEnded /\ outbox # << >> /\ Head(outbox).type = "SIMULATION_RESULT"

(***************************************************************************)
(* reset() and the delivery of GRID_INITIALIZED.                           *)
(***************************************************************************)
ResetCalled == Posted /\ PostedMessage.type = "INIT_GRID"

InitDelivered ==
    /\ outbox # << >>
    /\ Head(outbox).type = "GRID_INITIALIZED"
    /\ outbox' = Tail(outbox)

\* The step requests and the answers to them that are in transit.
StepsInTransit ==
    << SelectSeq(inbox, IsStepRequest), SelectSeq(outbox, IsStepAnswer) >>

\* C37. reset() and the delivery of GRID_INITIALIZED leave isProcessingRef,
\* isRunning, the rule and the speed as they are, and the step request in
\* flight stays in transit; reset() leaves the grid alone, and the delivery
\* replaces the cells only, not the grid's width and height.
C37_ResetKeepsRequest ==
    [][(ResetCalled \/ InitDelivered) =>
           /\ isProcessingRef' = isProcessingRef
           /\ config' = config
           /\ StepsInTransit' = StepsInTransit
           /\ ResetCalled => gridState' = gridState
           /\ InitDelivered => /\ gridState'.width = gridState.width
                               /\ gridState'.height = gridState.height
                               /\ inbox' = inbox]_vars

\* reset() has been called while a step request was outstanding.
C37_Witness ==
    /\ isProcessingRef
    /\ Outstanding = 1
    /\ resets = 1
    /\ inbox # << >>
    /\ Head(inbox).type = "INIT_GRID"


(***************************************************************************)
(* The marketplace API called from outside: votes, additions, listings     *)
(* and resets in any order.  Each method awaits a delay first and then     *)
(* runs to its end without another await, so a call is one step.           *)
(***************************************************************************)
\* Calls of the API's methods.
MaxCalls == 4

\* Date.now().toString(), the id of an added rule.
NewId == "1762300800000"
\* new Date().toISOString() of an added rule, as the date's digits.
Today == 20261105
\* The ids voteRule is called with: sample rules, the added rule, and an id
\* no rule has.
VoteIds == {"1", "3", NewId, "0"}
\* What addRule is called with.
RuleData == [name |-> "Replicator",
             rule |-> [birth |-> << 1, 3, 5, 7 >>, survival |-> << 1, 3, 5, 7 >>]]

\* [...this.rules] as values: the objects the entries stand for.
Listing(m) == [k \in DOMAIN m.rules |-> Deref(m, m.rules[k])]

\* this.rules.find(r => r.id === ruleId): the position of the first such
\* rule, 0 when there is none.
find(m, ruleId) ==
    LET found == {k \in DOMAIN m.rules : Deref(m, m.rules[k]).id = ruleId}
    IN  IF found = {} THEN 0 ELSE CHOOSE k \in found : \A j \in found : k <= j

\* this.rules.sort((a, b) => b[key] - a[key]): in place, descending, equal
\* keys keep their order.
sortDescending(m, key) ==
    LET n == Len(m.rules)
        K(i) == Deref(m, m.rules[i])[key]
        rank(i) == Cardinality({j \in 1 .. n : K(j) > K(i) \/ (K(j) = K(i) /\ j < i)}) + 1
    IN  [p \in 1 .. n |-> m.rules[CHOOSE i \in 1 .. n : rank(i) = p]]

\* saveRules(this.rules).
saveRules(m) == [m EXCEPT !.storage = Stringify(m)]

Returns(m, method, value) ==
    [m EXCEPT !.calls = @ + 1, !.last = method, !.returned = value]

MarketCall(m) ==
    /\ marketplace' = m
    /\ UNCHANGED << canvas, controls, config, gridState, isProcessingRef, timeSinceLastStep,
                    animationFrameRef, rafQueue, inbox, outbox, currentRule, resets,
                    timeSinceLastIssue >>

getRules ==
    /\ marketplace.calls < MaxCalls
    /\ MarketCall(Returns(marketplace, "getRules", Listing(marketplace)))

addRule(ruleData) ==
    LET newRule == [id |-> NewId, name |-> ruleData.name, rule |-> ruleData.rule,
                    votes |-> 0, createdAt |-> Today]
        added == [marketplace EXCEPT !.rules = << Own(newRule) >> \o @]
    IN  /\ marketplace.calls < MaxCalls
        /\ find(marketplace, NewId) = 0
        /\ MarketCall(Returns(saveRules(added), "addRule", << newRule >>))

voteRule(ruleId, vote) ==
    LET k == find(marketplace, ruleId)
        entry == marketplace.rules[k]
        voted == IF entry.shared
                 THEN [marketplace EXCEPT !.samples[entry.index].votes = @ + vote]
                 ELSE [marketplace EXCEPT !.rules[k].object.votes = @ + vote]
    IN  /\ marketplace.calls < MaxCalls
        /\ MarketCall(Returns(IF k = 0 THEN marketplace ELSE saveRules(voted),
                              "voteRule", << >>))

getPopularRules ==
    LET sorted == [marketplace EXCEPT !.rules = sortDescending(marketplace, "votes")]
    IN  /\ marketplace.calls < MaxCalls
        /\ MarketCall(Returns(sorted, "getPopularRules", Listing(sorted)))

getRecentRules ==
    LET sorted == [marketplace EXCEPT !.rules = sortDescending(marketplace, "createdAt")]
    IN  /\ marketplace.calls < MaxCalls
        /\ MarketCall(Returns(sorted, "getRecentRules", Listing(sorted)))

resetToSample ==
    /\ marketplace.calls < MaxCalls
    /\ MarketCall(Returns(saveRules([marketplace EXCEPT !.rules = SampleCopy]),
                          "resetToSample", << >>))

\* The page is loaded with nothing in localStorage, or with the rules an
\* earlier visit has saved.
MarketInit ==
    /\ config = [rule |-> DefaultRule, speed |-> DefaultSpeed, isRunning |-> FALSE]
    /\ gridState = [width |-> DEFAULT_GRID_SIZE, height |-> DEFAULT_GRID_SIZE,
                    cells |-> [i \in 0 .. (DEFAULT_GRID_SIZE * DEFAULT_GRID_SIZE - 1) |-> 0],
                    epoch |-> 0]
    /\ controls = Controls(config.rule)
    /\ canvas = CanvasIdle
    /\ marketplace \in {MarketplaceAPI(NothingStored),
                        MarketplaceAPI([stored |-> TRUE, rules |-> SAMPLE_RULES])}
    /\ isProcessingRef = FALSE
    /\ timeSinceLastStep = TimeCap
    /\ animationFrameRef = 0
    /\ rafQueue = << >>
    /\ inbox = << >>
    /\ outbox = << >>
    /\ currentRule = DefaultRule
    /\ resets = 0
    /\ timeSinceLastIssue = TimeCap

MarketNext ==
    \/ getRules
    \/ addRule(RuleData)
    \/ \E ruleId \in VoteIds, vote \in {1, -1} : voteRule(ruleId, vote)
    \/ getPopularRules
    \/ getRecentRules
    \/ resetToSample

MarketSpec == MarketInit /\ [][MarketNext]_vars

\* C39. After resetToSample, whatever votes, additions and listings came
\* before it, getRules returns the five sample rules with the votes 150, 89,
\* 45, 67 and 78.
C39_ResetRestoresSamples ==
    marketplace.last = "resetToSample" =>
        /\ [k \in DOMAIN marketplace.rules |-> Listing(marketplace)[k].id]
               = << "1", "2", "3", "4", "5" >>
        /\ [k \in DOMAIN marketplace.rules |-> Listing(marketplace)[k].votes]
               = << 150, 89, 45, 67, 78 >>
=============================================================================
